---- MODULE Spec2Model ----
(***************************************************************************)
(* Model of the multiyt-dlp core: the job manager actor                    *)
(* (src-tauri/src/core/manager.rs), the per-job worker                     *)
(* (src-tauri/src/core/process.rs) and the general configuration           *)
(* (src-tauri/src/config.rs).                                              *)
(*                                                                         *)
(* The manager's mailbox is an mpsc channel.  It is modelled as one FIFO   *)
(* per sender: a worker's messages are handled in the order it sent them,  *)
(* and messages of different senders interleave arbitrarily.  A host       *)
(* command (AddJob, CancelJob, ...) is one action: its send and its        *)
(* handler, since nothing else happens to the manager's state in between   *)
(* that another ordering of the sends could not produce.                   *)
(***************************************************************************)
EXTENDS Integers, Sequences, FiniteSets, TLC

\* ------------------------------------------------------------------ bounds
MaxLimit == 2
MaxProgress == 1
MaxCancels == 2
PersistenceCapacity == 1
MailboxCapacity == 1
\* Largest Content-Length a server advertises, in bytes.
MaxLength == 5
\* CHUNK_THRESHOLD (10 MiB in engine.rs:13), scaled to the lengths above.
ChunkThreshold == 4
\* DEFAULT_CONCURRENCY (4 in engine.rs:14), scaled.
Concurrency == 2
\* RetryPolicy::new(5) of the transport engine (engine.rs:98,227), scaled.
MaxRetries == 2
\* Most lines the history file gets.
MaxHistoryLines == 4
\* Capacity of the history writer's mailbox (100 in history.rs:53), scaled.
HistoryMailboxCapacity == 3
\* Concurrent calls of the commands expand_playlist and start_download.
MaxCalls == 4
\* Concurrent calls of the commands install_dependency and sync_dependencies.
MaxInstallCalls == 3
\* Lines of its child that the stream loop reads.
MaxLines == 6
\* The largest max_retries of a RetryPolicy built by a caller, and the calls of
\* next_backoff followed beyond max_retries.
MaxPolicyRetries == 66
ExtraCalls == 2

\* --------------------------------------------------------- program constants
MaxRenameAttempts == 3

\* ------------------------------------------------------------- value spaces
Ids == {"j1", "j2"}
\* The ids of the specifications with three jobs.
AllIds == Ids \cup {"j3"}
Urls == {"u1", "u2"}
FileNames == {"a", "b"}
None == "none"
LimitValues == 1..MaxLimit

\* The pid of the n-th process a worker spawns for a job (n = 1, 2).
PidOf(id, n) == (CASE id = "j1" -> 10 [] id = "j2" -> 20 [] OTHER -> 30) + n

\* Lines a child process can leave on stderr, as sequences of words.
StderrUnavailable == <<"ERROR:", "Video", "unavailable">>
StderrNoSuchFile == <<"ERROR:", "No", "such", "file">>
StderrSignIn == <<"Sign", "in", "to", "confirm">>
StderrBlobs == {StderrUnavailable, StderrNoSuchFile, StderrSignIn}

\* ------------------------------------------------------------ text helpers
\* str::to_lowercase, word by word.
LowerWord(w) ==
    CASE w = "ERROR:" -> "error:"
      [] w = "Video" -> "video"
      [] w = "No" -> "no"
      [] w = "Sign" -> "sign"
      [] w = "HTTP" -> "http"
      [] w = "Error" -> "error"
      [] w = "Missing" -> "missing"
      [] w = "JS" -> "js"
      [] w = "Runtime" -> "runtime"
      [] w = "Authentication" -> "authentication"
      [] w = "Required" -> "required"
      [] w = "Process" -> "process"
      [] w = "Failed" -> "failed"
      [] w = "File" -> "file"
      [] w = "Download" -> "download"
      [] OTHER -> w

to_lowercase(msg) == [i \in 1..Len(msg) |-> LowerWord(msg[i])]

\* str::contains on word sequences: pat occurs as a contiguous run of msg.
contains(msg, pat) ==
    \E i \in 0..(Len(msg) - Len(pat)) :
        \A k \in 1..Len(pat) : msg[i + k] = pat[k]

\* manager.rs is_fatal_error (211-217)
is_fatal_error(err_msg) ==
    LET msg == to_lowercase(err_msg)
    IN  \/ contains(msg, <<"video", "unavailable">>)
        \/ contains(msg, <<"this", "video", "has", "been", "removed">>)
        \/ (contains(msg, <<"fragment">>) /\ contains(msg, <<"not", "received">>))
        \/ contains(msg, <<"http", "error", "404">>)

\* FILESYSTEM_ERROR_REGEX, case-insensitive, on the captured log.
is_filesystem_error(log_blob) ==
    LET msg == to_lowercase(log_blob)
    IN  \/ contains(msg, <<"no", "such", "file">>)
        \/ contains(msg, <<"invalid", "argument">>)
        \/ contains(msg, <<"cannot", "be", "written">>)
        \/ contains(msg, <<"winerror", "123">>)
        \/ contains(msg, <<"postprocessing:", "error", "opening", "input", "files">>)

\* The short message of a failed process (process.rs, exit-nonzero branch).
short_msg(stderr_blob) ==
    IF contains(stderr_blob, <<"No", "supported", "JavaScript", "runtime">>)
    THEN <<"Missing", "compliant", "JS", "Runtime">>
    ELSE IF contains(stderr_blob, <<"Sign", "in", "to", "confirm">>)
    THEN <<"Authentication", "Required">>
    ELSE <<"Process", "Failed">>

\* ---------------------------------------------------------------- records
\* models.rs QueuedJob (the fields the manager and the worker branch on).
QueuedJob(id, url, restrict) ==
    [id |-> id, url |-> url, restrict_filenames |-> restrict,
     status |-> None, error |-> << >>, stderr |-> << >>]

\* models.rs Job::new, with sequence_id starting at 0.
\* pid 0 is Option::None; an empty word sequence is an absent string.
NewJob(url) ==
    [url |-> url, pid |-> 0, status |-> "pending", sequence_id |-> 0,
     error |-> << >>, stderr |-> << >>, output_path |-> None]

\* The worker of a job before process_queue has spawned it.
IdleWorker ==
    [pc |-> "idle", runs |-> 0, restrict_filenames |-> FALSE, spawned |-> 0,
     exit_ok |-> FALSE, stderr |-> << >>, lines |-> 0, src |-> None,
     attempts |-> 0, preserve_temp_file |-> FALSE]

\* A worker task that has returned: its locals are gone.
DoneWorker(w) == [IdleWorker EXCEPT !.pc = "done", !.runs = w.runs]

VARIABLES
    \* --- JobManagerActor (manager.rs 80-98)
    jobs, queue, persistence_registry, dirty_persistence,
    active_network_jobs, active_process_instances, completed_session_count,
    pending_updates,
    \* --- the actor's run loop and its channels
    actor, mailbox, persistence_chan, jobs_json,
    \* --- ConfigManager: general.max_concurrent_downloads / max_total_instances
    config,
    \* --- workers, their child processes and the file system
    worker, procs, signalled, stage_dir, staged, library,
    \* --- what the host has observed (events emitted) and what each worker has
    \* --- sent as the outcome of its job; cleared: ClearPending was handled and
    \* --- no job has been admitted since
    emitted, cleared, terminal_sent,
    \* --- one call of transport::download_file_robust and its engine
    xfer,
    \* --- one application of HistoryManager::normalize_url to a pair of URLs
    norm,
    \* --- the history file downloads.txt, the HistoryManager and its writer task
    hist,
    \* --- the calls of the commands expand_playlist and start_download
    calls,
    \* --- INSTALL_LOCKS and the calls of install_dependency / sync_dependencies
    deps,
    \* --- the stream loop of one worker reading the lines of its child
    stream,
    \* --- one RetryPolicy of the transport and the calls of next_backoff on it
    retry

mgrVars == <<jobs, queue, persistence_registry, dirty_persistence,
             active_network_jobs, active_process_instances,
             completed_session_count, pending_updates>>
chanVars == <<actor, mailbox, persistence_chan, jobs_json>>
workVars == <<worker, procs, signalled, terminal_sent>>
fsVars == <<stage_dir, staged, library>>
obsVars == <<emitted, cleared>>
coreVars == <<mgrVars, chanVars, config, workVars, fsVars, obsVars>>
auxVars == <<xfer, norm, hist, calls, deps, stream, retry>>
vars == <<coreVars, auxVars>>

EmptyMap == [k \in {} |-> k]
Put(map, k, v) == [x \in DOMAIN map \cup {k} |-> IF x = k THEN v ELSE map[x]]
Remove(map, k) == [x \in DOMAIN map \ {k} |-> map[x]]

\* Per job id: how many download-complete, download-error and download-cancelled
\* events were emitted, and the sequence_id of the last progress payload emitted
\* in a download-progress-batch event (0: none yet).
NoEvents == [complete |-> 0, error |-> 0, cancelled |-> 0, last_seq |-> 0]
NoFile == [exists |-> FALSE, jobs |-> {}]

\* jobs.json as a previous session may have left it.
InitialJobsFiles ==
    { NoFile,
      [exists |-> TRUE,
       jobs |-> { QueuedJob("j1", "u1", FALSE),
                  [QueuedJob("j2", "u1", FALSE) EXCEPT !.status = "error",
                     !.error = <<"Authentication", "Required">>,
                     !.stderr = StderrSignIn] }] }

\* A file of the transport: absent, or holding data (a sequence of byte offsets
\* of the resource; -1 stands for the content of an older file).
AbsentFile == [exists |-> FALSE, data |-> << >>]
FileOf(data) == [exists |-> TRUE, data |-> data]
OldFile == FileOf(<<-1>>)

\* No call of download_file_robust has been made.  stalled records that a
\* poll of the response stream of the latest attempt ran into IO_TIMEOUT.
XferIdle ==
    [pc |-> "idle", use_aria |-> FALSE, fallback |-> 0, len |-> 0, mode |-> "none",
     attempt |-> 0, part |-> AbsentFile, parts |-> << >>, dest |-> AbsentFile,
     result |-> "none", totals |-> {}, stalled |-> FALSE]

\* normalize_url has not been applied.
NormIdle == [stage |-> "idle", a |-> << >>, b |-> << >>,
             na |-> << >>, nb |-> << >>, nna |-> << >>]

\* HistoryManager::new with no downloads.txt: an empty set and mailbox.
\* appends holds the append_history tasks that start_download has spawned.
HistIdle == [file |-> << >>, cache |-> {}, mailbox |-> << >>, appends |-> << >>]

CallIds == 1..MaxCalls

\* A command that has not been called.
IdleCall == [pc |-> "idle", kind |-> "none", forced |-> FALSE,
             whitelisted |-> FALSE, whitelist |-> {}, entries |-> << >>,
             history |-> {}, i |-> 0, total_found |-> 0,
             job_ids |-> << >>, urls_to_archive |-> << >>,
             skipped_urls |-> << >>, result |-> "none"]

InstallCallIds == 1..MaxInstallCalls

\* A command of the dependency installer that has not been called: running
\* holds the providers whose install() the call is executing.
IdleInstallCall == [pc |-> "idle", kind |-> "none", name |-> "none",
                    running |-> {}, result |-> "none"]

\* INSTALL_LOCKS is empty (system.rs 14) and no command has been called.
DepsIdle == [locks |-> {}, call |-> [c \in InstallCallIds |-> IdleInstallCall]]

\* No RetryPolicy has been built.  asked counts the calls of next_backoff and
\* last is what the latest call returned.
RetryIdle ==
    [owner |-> "none", policy |-> [max_retries |-> 0, current_attempt |-> 0],
     asked |-> 0, last |-> [kind |-> "none", ms |-> 0]]

\* The subsystems outside the job manager, at rest.
\* process.rs 362: the stream loop before its first line.  update is the phase
\* of the last UpdateProgress the loop has sent (empty: nothing sent yet).
StreamIdle ==
    [state_phase |-> <<"Initializing">>, state_percentage |-> 0, lines |-> 0,
     update |-> << >>]

AuxIdle ==
    /\ xfer = XferIdle
    /\ norm = NormIdle
    /\ hist = HistIdle
    /\ calls = [c \in CallIds |-> IdleCall]
    /\ deps = DepsIdle
    /\ stream = StreamIdle
    /\ retry = RetryIdle

\* The state after JobManagerActor::new (manager.rs 127-140), with the general
\* configuration cfg and the jobs file as found on disk.
InitState(cfg, file) ==
    /\ jobs = EmptyMap
    /\ queue = << >>
    /\ persistence_registry = EmptyMap
    /\ dirty_persistence = FALSE
    /\ active_network_jobs = 0
    /\ active_process_instances = 0
    /\ completed_session_count = 0
    /\ pending_updates = EmptyMap
    /\ actor = "running"
    /\ mailbox = [id \in AllIds |-> << >>]
    /\ persistence_chan = << >>
    /\ jobs_json = file
    /\ config = cfg
    /\ worker = [id \in AllIds |-> IdleWorker]
    /\ procs = EmptyMap
    /\ signalled = {}
    /\ terminal_sent = [id \in AllIds |-> {}]
    /\ stage_dir = [id \in AllIds |-> FALSE]
    /\ staged = [id \in AllIds |-> None]
    /\ library = [f \in FileNames |-> IF f = "a" THEN "ext" ELSE None]
    /\ emitted = [id \in AllIds |-> NoEvents]
    /\ cleared = FALSE
    /\ AuxIdle

\* ======================================================== manager helpers
\* manager.rs kill_process: SIGTERM to the process group / taskkill of the pid.
kill_process(sig, pid) == sig \cup {pid}

\* The task process_queue spawns: run_download_process(next_job, ..) at its start.
SpawnedWorker(w, next_job) ==
    [IdleWorker EXCEPT !.pc = "start", !.runs = w.runs + 1,
                       !.restrict_filenames = next_job.restrict_filenames]

RECURSIVE process_queue_no_limit_check(_, _, _, _, _, _)
\* Faulty variant of process_queue: the total-instances limit is not consulted and the
\* concurrent-downloads limit is compared with <=.
process_queue_no_limit_check(jt, cfg, q, net, inst, w) ==
    IF net <= cfg.max_concurrent_downloads /\ q # << >>
    THEN LET next_job == Head(q)
         IN  IF next_job.id \in DOMAIN jt /\ jt[next_job.id].status = "cancelled"
             THEN process_queue_no_limit_check(jt, cfg, Tail(q), net, inst, w)
             ELSE process_queue_no_limit_check(jt, cfg, Tail(q), net + 1, inst + 1,
                      [w EXCEPT ![next_job.id] = SpawnedWorker(w[next_job.id], next_job)])
    ELSE [queue |-> q, active_network_jobs |-> net,
          active_process_instances |-> inst, worker |-> w]

RECURSIVE process_queue_counts_cancelled(_, _, _, _, _, _)
\* Faulty variant of process_queue: a cancelled job that is dropped takes a slot.
process_queue_counts_cancelled(jt, cfg, q, net, inst, w) ==
    IF net < cfg.max_concurrent_downloads /\ inst < cfg.max_total_instances
       /\ q # << >>
    THEN LET next_job == Head(q)
         IN  IF next_job.id \in DOMAIN jt /\ jt[next_job.id].status = "cancelled"
             THEN process_queue_counts_cancelled(jt, cfg, Tail(q), net + 1, inst + 1, w)
             ELSE process_queue_counts_cancelled(jt, cfg, Tail(q), net + 1, inst + 1,
                      [w EXCEPT ![next_job.id] = SpawnedWorker(w[next_job.id], next_job)])
    ELSE [queue |-> q, active_network_jobs |-> net,
          active_process_instances |-> inst, worker |-> w]

RECURSIVE process_queue_lifo(_, _, _, _, _, _)
\* Faulty variant of process_queue: the job admitted last is popped first.
process_queue_lifo(jt, cfg, q, net, inst, w) ==
    IF net < cfg.max_concurrent_downloads /\ inst < cfg.max_total_instances
       /\ q # << >>
    THEN LET next_job == q[Len(q)]
             rest == SubSeq(q, 1, Len(q) - 1)
         IN  IF next_job.id \in DOMAIN jt /\ jt[next_job.id].status = "cancelled"
             THEN process_queue_lifo(jt, cfg, rest, net, inst, w)
             ELSE process_queue_lifo(jt, cfg, rest, net + 1, inst + 1,
                      [w EXCEPT ![next_job.id] = SpawnedWorker(w[next_job.id], next_job)])
    ELSE [queue |-> q, active_network_jobs |-> net,
          active_process_instances |-> inst, worker |-> w]

RECURSIVE process_queue(_, _, _, _, _, _)
\* manager.rs process_queue, on job table jt, configuration snapshot cfg, queue q,
\* the two counters and the workers w; the result is their values afterwards.
process_queue(jt, cfg, q, net, inst, w) ==
    IF net < cfg.max_concurrent_downloads /\ inst < cfg.max_total_instances
       /\ q # << >>
    THEN LET next_job == Head(q)
         IN  IF next_job.id \in DOMAIN jt /\ jt[next_job.id].status = "cancelled"
             THEN process_queue(jt, cfg, Tail(q), net, inst, w)
             ELSE process_queue(jt, cfg, Tail(q), net + 1, inst + 1,
                      [w EXCEPT ![next_job.id] = SpawnedWorker(w[next_job.id], next_job)])
    ELSE [queue |-> q, active_network_jobs |-> net,
          active_process_instances |-> inst, worker |-> w]

\* Applies the result of process_queue to the state.
RunProcessQueue(jt, q, net, inst) ==
    LET r == process_queue(jt, config, q, net, inst, worker)
    IN  /\ queue' = r.queue
        /\ active_network_jobs' = r.active_network_jobs
        /\ active_process_instances' = r.active_process_instances
        /\ worker' = r.worker

\* manager.rs clean_temp_directory: with an empty queue and an empty registry,
\* every entry of temp_downloads is removed.
clean_temp_directory(q, reg, fs) ==
    IF q # << >> \/ DOMAIN reg # {}
    THEN fs
    ELSE [stage_dir |-> [id \in AllIds |-> FALSE], staged |-> [id \in AllIds |-> None]]

\* The job table entry built from a queued job (AddJob and ResumePending).
JobFromQueued(job) == NewJob(job.url)

IsActiveStatus(st) == st \in {"pending", "downloading"}

\* ========================================================= host commands
\* Faulty variant of is_duplicate_active: only pending jobs count as duplicates.
is_duplicate_active_pending_only(jt, url) ==
    \E j \in DOMAIN jt : jt[j].url = url /\ jt[j].status = "pending"

\* manager.rs 225-227
is_duplicate_active(jt, url) ==
    \E j \in DOMAIN jt : jt[j].url = url /\ IsActiveStatus(jt[j].status)

\* What the AddJob handler sends on resp (manager.rs 222-250).
AddJobResponse(jt, id, url) ==
    IF id \in DOMAIN jt THEN "Job already exists"
    ELSE IF is_duplicate_active(jt, url) THEN "URL is already in queue"
    ELSE "Ok"

\* JobManagerHandle::add_job: JobMessage::AddJob { job, resp } is sent and
\* handled (manager.rs 221-252).
add_job(id, url, restrict) ==
    /\ actor = "running"
    /\ LET job == QueuedJob(id, url, restrict)
       IN  IF AddJobResponse(jobs, id, url) # "Ok"
           THEN UNCHANGED <<mgrVars, worker>>
           ELSE /\ jobs' = Put(jobs, id, JobFromQueued(job))
                /\ persistence_registry' = Put(persistence_registry, id, job)
                /\ dirty_persistence' = TRUE
                /\ RunProcessQueue(jobs', Append(queue, job),
                                   active_network_jobs, active_process_instances)
                /\ UNCHANGED <<completed_session_count, pending_updates>>
    /\ cleared' = (cleared /\ AddJobResponse(jobs, id, url) # "Ok")
    /\ UNCHANGED <<chanVars, config, procs, signalled, terminal_sent, fsVars,
                   emitted>>

\* The host adds a job.
AddJob(id, url, restrict) ==
    /\ add_job(id, url, restrict)
    /\ UNCHANGED auxVars

\* manager.rs 260-263
CancelledJob(j) == [j EXCEPT !.status = "cancelled", !.sequence_id = j.sequence_id + 1]

\* Faulty variant of RegistryAfterCancel: the entry stays in the registry.
RegistryAfterCancel_kept(reg, id) == reg

\* manager.rs 264: "self.persistence_registry.remove(&id);"
RegistryAfterCancel(reg, id) == Remove(reg, id)

\* Cancels requested so far (each emits one download-cancelled event).
CancelCount ==
    emitted["j1"].cancelled + emitted["j2"].cancelled + emitted["j3"].cancelled

\* Faulty variant of EmitCancelled: the event goes out twice.
EmitCancelled_twice(ev, id) == [ev EXCEPT ![id].cancelled = @ + 2]

\* emit_all("download-cancelled", { job_id: id }) (manager.rs 267-269)
EmitCancelled(ev, id) == [ev EXCEPT ![id].cancelled = @ + 1]

\* JobMessage::CancelJob { id } (manager.rs 253-270)
CancelJob(id) ==
    /\ actor = "running"
    /\ CancelCount < MaxCancels
    /\ signalled' = IF id \in DOMAIN jobs /\ jobs[id].pid # 0
                    THEN kill_process(signalled, jobs[id].pid)
                    ELSE signalled
    /\ jobs' = IF id \in DOMAIN jobs
               THEN [jobs EXCEPT ![id] = CancelledJob(jobs[id])]
               ELSE jobs
    /\ persistence_registry' = RegistryAfterCancel(persistence_registry, id)
    /\ dirty_persistence' = TRUE
    /\ emitted' = EmitCancelled(emitted, id)
    /\ UNCHANGED <<cleared, queue, active_network_jobs, active_process_instances,
                   completed_session_count, pending_updates, chanVars, config,
                   worker, procs, terminal_sent, fsVars>>
    /\ UNCHANGED auxVars

\* ConfigManager::update_general (config.rs 245-248): the host replaces the
\* general configuration; the manager reads it at its next process_queue.
UpdateGeneral(mc, mt) ==
    /\ config # [max_concurrent_downloads |-> mc, max_total_instances |-> mt]
    /\ config' = [max_concurrent_downloads |-> mc, max_total_instances |-> mt]
    /\ UNCHANGED <<mgrVars, chanVars, workVars, fsVars, obsVars>>
    /\ UNCHANGED auxVars

\* ===================================================== worker messages
\* Faulty variant of ignores_message: a cancelled job is treated like any other.
ignores_message_never(jt, id) == FALSE

\* manager.rs 285, 308, 326: "if job.status == JobStatus::Cancelled { return; }"
ignores_message(jt, id) == id \in DOMAIN jt /\ jt[id].status = "cancelled"

\* JobMessage::ProcessStarted { id, pid } (manager.rs 271-282)
OnProcessStarted(msg) ==
    /\ IF msg.id \in DOMAIN jobs
       THEN IF jobs[msg.id].status = "cancelled"
            THEN /\ signalled' = kill_process(signalled, msg.pid)
                 /\ UNCHANGED jobs
            ELSE /\ jobs' = [jobs EXCEPT ![msg.id].pid = msg.pid,
                                         ![msg.id].status = "downloading",
                                         ![msg.id].sequence_id = @ + 1]
                 /\ UNCHANGED signalled
       ELSE UNCHANGED <<jobs, signalled>>
    /\ UNCHANGED <<queue, persistence_registry, dirty_persistence,
                   active_network_jobs, active_process_instances,
                   completed_session_count, pending_updates, worker, fsVars, obsVars>>

\* Faulty variant of NextSequenceId: the counter is not advanced.
NextSequenceId_stuck(j) == j.sequence_id

\* manager.rs 292: "job.sequence_id += 1; // Increment Seq"
NextSequenceId(j) == j.sequence_id + 1

\* JobMessage::UpdateProgress { .. } (manager.rs 283-304)
OnUpdateProgress(msg) ==
    /\ IF msg.id \in DOMAIN jobs /\ ~ignores_message(jobs, msg.id)
       THEN LET seq == NextSequenceId(jobs[msg.id])
            IN  /\ jobs' = [jobs EXCEPT ![msg.id].sequence_id = seq]
                /\ pending_updates' = Put(pending_updates, msg.id,
                       [job_id |-> msg.id, sequence_id |-> seq, phase |-> msg.phase])
       ELSE UNCHANGED <<jobs, pending_updates>>
    /\ UNCHANGED <<queue, persistence_registry, dirty_persistence,
                   active_network_jobs, active_process_instances,
                   completed_session_count, signalled, worker, fsVars, obsVars>>

\* JobMessage::JobCompleted { id, output_path } (manager.rs 305-322)
OnJobCompleted(msg) ==
    /\ IF ignores_message(jobs, msg.id)
       THEN UNCHANGED <<jobs, persistence_registry, dirty_persistence, emitted>>
       ELSE /\ jobs' = IF msg.id \in DOMAIN jobs
                       THEN [jobs EXCEPT ![msg.id].status = "completed",
                                         ![msg.id].output_path = msg.output_path,
                                         ![msg.id].sequence_id = @ + 1]
                       ELSE jobs
            /\ persistence_registry' = Remove(persistence_registry, msg.id)
            /\ dirty_persistence' = TRUE
            /\ emitted' = [emitted EXCEPT ![msg.id].complete = @ + 1]
    /\ UNCHANGED <<queue, active_network_jobs, active_process_instances,
                   completed_session_count, pending_updates, signalled, worker, fsVars,
                   cleared>>

\* Faulty variant of RegistryAfterError: a non-fatal failure also drops the entry.
RegistryAfterError_always_removed(reg, id, error, stderr) == Remove(reg, id)

\* manager.rs 335-343: the registry after a JobError with this error and stderr.
RegistryAfterError(reg, id, error, stderr) ==
    IF is_fatal_error(error) \/ is_fatal_error(stderr)
    THEN Remove(reg, id)
    ELSE IF id \in DOMAIN reg
         THEN [reg EXCEPT ![id].status = "error", ![id].error = error,
                          ![id].stderr = stderr]
         ELSE reg

\* JobMessage::JobError { id, payload } (manager.rs 323-347)
OnJobError(msg) ==
    /\ IF ignores_message(jobs, msg.id)
       THEN UNCHANGED <<jobs, persistence_registry, dirty_persistence, emitted>>
       ELSE /\ jobs' = IF msg.id \in DOMAIN jobs
                       THEN [jobs EXCEPT ![msg.id].status = "error",
                                         ![msg.id].error = msg.error,
                                         ![msg.id].stderr = msg.stderr,
                                         ![msg.id].sequence_id = @ + 1]
                       ELSE jobs
            /\ persistence_registry' =
                   RegistryAfterError(persistence_registry, msg.id, msg.error, msg.stderr)
            /\ dirty_persistence' = TRUE
            /\ emitted' = [emitted EXCEPT ![msg.id].error = @ + 1]
    /\ UNCHANGED <<queue, active_network_jobs, active_process_instances,
                   completed_session_count, pending_updates, signalled, worker, fsVars,
                   cleared>>

\* JobMessage::FileConflict: handle_message (manager.rs 219-455) has no arm that
\* changes the manager's state for it.
OnFileConflict(msg) ==
    UNCHANGED <<mgrVars, signalled, worker, fsVars, obsVars>>

\* Faulty variant of FinishedNetworkJobs: the network counter is not released.
FinishedNetworkJobs_kept(net) == net

\* manager.rs 354-356: "if self.active_network_jobs > 0 { .. -= 1; }"
FinishedNetworkJobs(net) == IF net > 0 THEN net - 1 ELSE net

\* JobMessage::WorkerFinished (manager.rs 348-362)
OnWorkerFinished ==
    LET inst == IF active_process_instances > 0
                THEN active_process_instances - 1 ELSE active_process_instances
        done == IF active_process_instances > 0
                THEN completed_session_count + 1 ELSE completed_session_count
        net == FinishedNetworkJobs(active_network_jobs)
        fs == IF inst = 0
              THEN clean_temp_directory(queue, persistence_registry,
                       [stage_dir |-> stage_dir, staged |-> staged])
              ELSE [stage_dir |-> stage_dir, staged |-> staged]
    IN  /\ completed_session_count' = IF inst = 0 THEN 0 ELSE done
        /\ stage_dir' = fs.stage_dir
        /\ staged' = fs.staged
        /\ RunProcessQueue(jobs, queue, net, inst)
        /\ UNCHANGED <<jobs, persistence_registry, dirty_persistence,
                       pending_updates, signalled, library, obsVars>>

handle_message(msg) ==
    CASE msg.type = "ProcessStarted" -> OnProcessStarted(msg)
      [] msg.type = "UpdateProgress" -> OnUpdateProgress(msg)
      [] msg.type = "JobCompleted" -> OnJobCompleted(msg)
      [] msg.type = "JobError" -> OnJobError(msg)
      [] msg.type = "FileConflict" -> OnFileConflict(msg)
      [] msg.type = "WorkerFinished" -> OnWorkerFinished

\* The run loop takes the next message of some sender (manager.rs 158-166).
ManagerRecv(id) ==
    /\ actor = "running"
    /\ mailbox[id] # << >>
    /\ mailbox' = [mailbox EXCEPT ![id] = Tail(@)]
    /\ handle_message(Head(mailbox[id]))
    /\ UNCHANGED <<actor, persistence_chan, jobs_json, config, procs,
                   terminal_sent>>
    /\ UNCHANGED auxVars

\* ================================================ tick, persistence, resume
\* Faulty variant of flush_updates: the batch carries the payload of one job only.
flush_updates_one_payload(pend, em) ==
    [pending_updates |-> EmptyMap,
     emitted |-> [id \in AllIds |->
        IF id \in DOMAIN pend /\ id = (CHOOSE x \in DOMAIN pend : TRUE)
        THEN [em[id] EXCEPT !.last_seq = pend[id].sequence_id]
        ELSE em[id]]]

\* manager.rs flush_updates (457-463): one batch with every pending payload.
flush_updates(pend, em) ==
    [pending_updates |-> EmptyMap,
     emitted |-> [id \in AllIds |->
        IF id \in DOMAIN pend
        THEN [em[id] EXCEPT !.last_seq = pend[id].sequence_id]
        ELSE em[id]]]

\* The Vec<QueuedJob> of a registry (manager.rs 172), as the set of its values.
Snapshot(reg) == { reg[id] : id \in DOMAIN reg }

\* Faulty variant of save_if_dirty: the flag is cleared whether or not the
\* hand-off succeeds.
save_if_dirty_always_clears(chan, dirty, reg) ==
    IF dirty /\ Len(chan) < PersistenceCapacity
    THEN [persistence_chan |-> Append(chan, [type |-> "Save", jobs |-> Snapshot(reg)]),
          dirty_persistence |-> FALSE]
    ELSE [persistence_chan |-> chan, dirty_persistence |-> FALSE]

\* manager.rs 171-176: with the flag set, try_send of Save(snapshot); the flag
\* is cleared when try_send returns Ok.
save_if_dirty(chan, dirty, reg) ==
    IF dirty /\ Len(chan) < PersistenceCapacity
    THEN [persistence_chan |-> Append(chan, [type |-> "Save", jobs |-> Snapshot(reg)]),
          dirty_persistence |-> FALSE]
    ELSE [persistence_chan |-> chan, dirty_persistence |-> dirty]

\* The interval branch of the run loop (manager.rs 167-177).
Tick ==
    /\ actor = "running"
    /\ (DOMAIN pending_updates # {} \/ dirty_persistence)
    /\ LET f == flush_updates(pending_updates, emitted)
       IN  /\ pending_updates' = f.pending_updates
           /\ emitted' = f.emitted
    /\ UNCHANGED cleared
    /\ LET s == save_if_dirty(persistence_chan, dirty_persistence, persistence_registry)
       IN  /\ persistence_chan' = s.persistence_chan
           /\ dirty_persistence' = s.dirty_persistence
    /\ UNCHANGED <<jobs, queue, persistence_registry, active_network_jobs,
                   active_process_instances, completed_session_count,
                   actor, mailbox, jobs_json, config, workVars, fsVars>>
    /\ UNCHANGED auxVars

\* The persistence task (manager.rs 104-125) takes one message.  A Save that
\* cannot write its temporary file leaves jobs.json as it was.
PersistenceWrite(write_ok) ==
    /\ persistence_chan # << >>
    /\ persistence_chan' = Tail(persistence_chan)
    /\ LET msg == Head(persistence_chan)
       IN  jobs_json' = IF msg.type = "Save"
                        THEN IF write_ok THEN [exists |-> TRUE, jobs |-> msg.jobs]
                             ELSE jobs_json
                        ELSE NoFile
    /\ UNCHANGED <<mgrVars, actor, mailbox, config, workVars, fsVars, obsVars>>
    /\ UNCHANGED auxVars

\* Every order in which a set of jobs can appear in the file.
OrdersOf(S) ==
    { o \in [1..Cardinality(S) -> S] : \A i, k \in 1..Cardinality(S) : i # k => o[i] # o[k] }

RECURSIVE resume_jobs_no_table_check(_, _, _, _)
\* Faulty variant of resume_jobs: jobs already in the table are rebuilt and queued again.
resume_jobs_no_table_check(file_jobs, jt, reg, q) ==
    IF file_jobs = << >>
    THEN [jobs |-> jt, persistence_registry |-> reg, queue |-> q]
    ELSE LET job == Head(file_jobs)
             j == IF job.status = "error"
                  THEN [JobFromQueued(job) EXCEPT !.status = "error",
                            !.error = job.error, !.stderr = job.stderr]
                  ELSE JobFromQueued(job)
         IN  resume_jobs_no_table_check(Tail(file_jobs), Put(jt, job.id, j),
                  Put(reg, job.id, job),
                  IF j.status # "error" THEN Append(q, job) ELSE q)

RECURSIVE resume_jobs(_, _, _, _)
\* The loop of ResumePending (manager.rs 382-411) over the jobs read from the file.
resume_jobs(file_jobs, jt, reg, q) ==
    IF file_jobs = << >>
    THEN [jobs |-> jt, persistence_registry |-> reg, queue |-> q]
    ELSE LET job == Head(file_jobs)
             j == IF job.status = "error"
                  THEN [JobFromQueued(job) EXCEPT !.status = "error",
                            !.error = job.error, !.stderr = job.stderr]
                  ELSE JobFromQueued(job)
         IN  IF job.id \notin DOMAIN jt
             THEN resume_jobs(Tail(file_jobs), Put(jt, job.id, j), Put(reg, job.id, job),
                              IF j.status # "error" THEN Append(q, job) ELSE q)
             ELSE resume_jobs(Tail(file_jobs), jt, reg, q)

\* JobMessage::ResumePending (manager.rs 375-417)
ResumePending ==
    /\ actor = "running"
    /\ \E order \in OrdersOf(IF jobs_json.exists THEN jobs_json.jobs ELSE {}) :
          LET r == resume_jobs(order, jobs, persistence_registry, queue)
          IN  /\ jobs' = r.jobs
              /\ persistence_registry' = r.persistence_registry
              /\ RunProcessQueue(r.jobs, r.queue,
                                 active_network_jobs, active_process_instances)
              /\ cleared' = (cleared /\ DOMAIN r.jobs = DOMAIN jobs)
    /\ UNCHANGED <<dirty_persistence, completed_session_count, pending_updates,
                   chanVars, config, procs, signalled, terminal_sent, fsVars, emitted>>
    /\ UNCHANGED auxVars

\* JobMessage::ClearPending (manager.rs 418-422)
ClearPending ==
    /\ actor = "running"
    /\ persistence_chan' = IF Len(persistence_chan) < PersistenceCapacity
                           THEN Append(persistence_chan, [type |-> "Clear"])
                           ELSE persistence_chan
    /\ LET fs == clean_temp_directory(queue, persistence_registry,
                     [stage_dir |-> stage_dir, staged |-> staged])
       IN  /\ stage_dir' = fs.stage_dir
           /\ staged' = fs.staged
    /\ cleared' = TRUE
    /\ UNCHANGED <<mgrVars, actor, mailbox, jobs_json, config, workVars,
                   library, emitted>>
    /\ UNCHANGED auxVars

\* ================================================================ shutdown
\* The pids handle_shutdown signals (manager.rs 183-191).
ShutdownPids(jt) == { jt[id].pid : id \in { i \in DOMAIN jt : jt[i].pid # 0 } }

\* JobMessage::Shutdown: the run loop enters handle_shutdown (manager.rs 159-164,
\* 182-192) and kills every recorded pid.
Shutdown ==
    /\ actor = "running"
    /\ actor' = "draining"
    /\ signalled' = signalled \cup ShutdownPids(jobs)
    /\ UNCHANGED <<mgrVars, mailbox, persistence_chan, jobs_json, config,
                   worker, procs, terminal_sent, fsVars, obsVars>>
    /\ UNCHANGED auxVars

\* One round of the drain loop (manager.rs 195-206): a received message is
\* handled when it is WorkerFinished and dropped otherwise.
ShutdownDrain(id) ==
    /\ actor = "draining"
    /\ active_process_instances > 0
    /\ mailbox[id] # << >>
    /\ mailbox' = [mailbox EXCEPT ![id] = Tail(@)]
    /\ IF Head(mailbox[id]).type = "WorkerFinished"
       THEN OnWorkerFinished
       ELSE UNCHANGED <<mgrVars, signalled, worker, fsVars, obsVars>>
    /\ UNCHANGED <<actor, persistence_chan, jobs_json, config, procs,
                   terminal_sent>>
    /\ UNCHANGED auxVars

\* The drain loop ends (no worker left, or the 3 s deadline), the temp directory
\* is cleaned and the actor stops (manager.rs 195-208, 162-163).
ShutdownFinish ==
    /\ actor = "draining"
    /\ actor' = "stopped"
    /\ LET fs == clean_temp_directory(queue, persistence_registry,
                     [stage_dir |-> stage_dir, staged |-> staged])
       IN  /\ stage_dir' = fs.stage_dir
           /\ staged' = fs.staged
    /\ UNCHANGED <<mgrVars, mailbox, persistence_chan, jobs_json, config,
                   workVars, library, obsVars>>
    /\ UNCHANGED auxVars

\* ================================================================= worker
\* tx_actor.send(..).await suspends the worker while the channel is full
\* (mpsc::channel(1000), manager.rs 29): a step that sends waits for room.
CanSend(id) == actor = "stopped" \/ Len(mailbox[id]) < MailboxCapacity

\* tx_actor.send(..).await of a worker: appended to the sender's FIFO; the send
\* fails, and is ignored, once the actor has dropped its receiver.
Sent(id, msgs) ==
    IF actor = "stopped" THEN mailbox
    ELSE [mailbox EXCEPT ![id] = @ \o msgs]

UpdateProgressMsg(id, phase) == [type |-> "UpdateProgress", id |-> id, phase |-> phase]

\* process.rs construct_error (111-124)
construct_error(id, msg, stderr) ==
    [type |-> "JobError", id |-> id, error |-> msg, stderr |-> stderr]

\* WorkerGuard::drop (process.rs 83-90)
WorkerFinishedMsg == [type |-> "WorkerFinished"]

CurrentPid(id) == PidOf(id, worker[id].spawned)

\* run_download_process up to the loop (process.rs 166-183).
WorkerStart(id) ==
    /\ worker[id].pc = "start"
    /\ CanSend(id)
    /\ worker' = [worker EXCEPT ![id].pc = "loop"]
    /\ mailbox' = Sent(id, <<UpdateProgressMsg(id, "Initializing Process...")>>)
    /\ UNCHANGED <<mgrVars, actor, persistence_chan, jobs_json, config, procs,
                   signalled, terminal_sent, fsVars, obsVars>>
    /\ UNCHANGED auxVars

\* One pass from the head of the loop to the spawn (process.rs 185-341).
\* outcome: no download directory is known, the spawn fails, or a child runs.
WorkerSpawn(id, outcome) ==
    /\ worker[id].pc = "loop"
    /\ CanSend(id)
    /\ CASE outcome = "no_dir" ->
              /\ worker' = [worker EXCEPT ![id] = DoneWorker(@)]
              /\ mailbox' = Sent(id, <<construct_error(id, <<"Missing", "download", "dir">>, << >>),
                                       WorkerFinishedMsg>>)
              /\ terminal_sent' = [terminal_sent EXCEPT ![id] = @ \cup {"JobError"}]
              /\ UNCHANGED <<procs, stage_dir, staged>>
         [] outcome = "spawn_failed" ->
              /\ worker' = [worker EXCEPT ![id] = DoneWorker(@)]
              /\ mailbox' = Sent(id, <<construct_error(id, <<"Failed", "to", "spawn", "process">>,
                                                       <<"os", "error">>),
                                       WorkerFinishedMsg>>)
              /\ terminal_sent' = [terminal_sent EXCEPT ![id] = @ \cup {"JobError"}]
              /\ stage_dir' = [stage_dir EXCEPT ![id] = FALSE]
              /\ staged' = [staged EXCEPT ![id] = None]
              /\ UNCHANGED procs
         [] outcome = "spawned" ->
              LET pid == PidOf(id, worker[id].spawned + 1)
              IN  /\ worker' = [worker EXCEPT ![id].pc = "stream",
                                              ![id].spawned = @ + 1,
                                              ![id].lines = 0]
                  /\ procs' = Put(procs, pid, "running")
                  /\ stage_dir' = [stage_dir EXCEPT ![id] = TRUE]
                  /\ staged' = [staged EXCEPT ![id] = None]
                  /\ mailbox' = Sent(id,
                        <<[type |-> "ProcessStarted", id |-> id, pid |-> pid]>>
                        \o IF worker[id].restrict_filenames
                           THEN <<UpdateProgressMsg(id, "Sanitizing Filenames (Retry)")>>
                           ELSE << >>)
                  /\ UNCHANGED terminal_sent
    /\ UNCHANGED <<mgrVars, actor, persistence_chan, jobs_json, config,
                   signalled, library, obsVars>>
    /\ UNCHANGED auxVars

\* The child prints a progress record and the stream loop forwards it
\* (process.rs 369-485).
ProcLine(id) ==
    /\ worker[id].pc = "stream"
    /\ CurrentPid(id) \in DOMAIN procs
    /\ procs[CurrentPid(id)] = "running"
    /\ worker[id].lines < MaxProgress
    /\ CanSend(id)
    /\ worker' = [worker EXCEPT ![id].lines = @ + 1]
    /\ mailbox' = Sent(id, <<UpdateProgressMsg(id, "Downloading")>>)
    /\ UNCHANGED <<mgrVars, actor, persistence_chan, jobs_json, config, procs,
                   signalled, terminal_sent, fsVars, obsVars>>
    /\ UNCHANGED auxVars

\* The child closes stdout and stderr: its work is over, with the exit status ok,
\* the stderr lines blob and, when ok, the output file out left in the stage
\* directory (None: no file).  The stream loop of the worker ends.
ProcClose(id, ok, blob, out) ==
    /\ worker[id].pc = "stream"
    /\ CurrentPid(id) \in DOMAIN procs
    /\ procs[CurrentPid(id)] = "running"
    /\ procs' = [procs EXCEPT ![CurrentPid(id)] = "closed"]
    /\ worker' = [worker EXCEPT ![id].exit_ok = ok,
                                ![id].stderr = IF ok THEN << >> ELSE blob,
                                ![id].lines = 0]
    /\ staged' = IF ok /\ stage_dir[id] THEN [staged EXCEPT ![id] = out] ELSE staged
    /\ UNCHANGED <<mgrVars, chanVars, config, signalled, terminal_sent,
                   stage_dir, library, obsVars>>
    /\ UNCHANGED auxVars

\* The child process exits.
ProcExit(id) ==
    /\ worker[id].pc = "stream"
    /\ CurrentPid(id) \in DOMAIN procs
    /\ procs[CurrentPid(id)] = "closed"
    /\ procs' = Remove(procs, CurrentPid(id))
    /\ UNCHANGED <<mgrVars, chanVars, config, worker, signalled, terminal_sent,
                   fsVars, obsVars>>
    /\ UNCHANGED auxVars

\* process.rs 369 and 487: the stream loop has ended and child.wait() returned.
child_waited(ps, pid) == pid \notin DOMAIN ps

\* Faulty variant of retries_restricted: the retry is taken again although
\* restrict_filenames is already set.
retries_restricted_again(w) == is_filesystem_error(w.stderr)

\* process.rs 572-577: "if !job_data.restrict_filenames && is_filesystem_error".
retries_restricted(w) == ~w.restrict_filenames /\ is_filesystem_error(w.stderr)

\* After the wait (process.rs 487-589), up to the robust move.
WorkerWait(id) ==
    /\ worker[id].pc = "stream"
    /\ child_waited(procs, CurrentPid(id))
    /\ CanSend(id)
    /\ LET w == worker[id]
       IN  IF w.exit_ok
           THEN IF staged[id] # None
                THEN /\ worker' = [worker EXCEPT ![id].pc = "move_check",
                                                 ![id].src = staged[id],
                                                 ![id].exit_ok = FALSE,
                                                 ![id].attempts = 0]
                     /\ mailbox' = Sent(id, <<UpdateProgressMsg(id, "Moving to Library")>>)
                     /\ UNCHANGED terminal_sent
                ELSE /\ worker' = [worker EXCEPT ![id].pc = "cleanup",
                                                 ![id].exit_ok = FALSE]
                     /\ mailbox' = Sent(id, <<construct_error(id,
                            <<"Download", "succeeded", "but", "file", "not", "found">>,
                            <<"Could", "not", "locate", "output", "file">>)>>)
                     /\ terminal_sent' = [terminal_sent EXCEPT ![id] = @ \cup {"JobError"}]
           ELSE IF retries_restricted(w)
                THEN /\ worker' = [worker EXCEPT ![id].pc = "loop",
                                                 ![id].stderr = << >>,
                                                 ![id].restrict_filenames = TRUE]
                     /\ UNCHANGED <<mailbox, terminal_sent>>
                ELSE /\ worker' = [worker EXCEPT ![id].pc = "cleanup",
                                                 ![id].stderr = << >>]
                     /\ mailbox' = Sent(id, <<construct_error(id, short_msg(w.stderr), w.stderr)>>)
                     /\ terminal_sent' = [terminal_sent EXCEPT ![id] = @ \cup {"JobError"}]
    /\ UNCHANGED <<mgrVars, actor, persistence_chan, jobs_json, config, procs,
                   signalled, fsVars, obsVars>>
    /\ UNCHANGED auxVars

\* -------------------------------------------------- robust move and cleanup
ConflictMsg(id, src, dest) ==
    [type |-> "FileConflict", id |-> id,
     temp_path |-> <<"temp_downloads", id, src>>, output_path |-> <<"library", dest>>]

\* process.rs 547-555: the move result AlreadyExists.
RaiseConflict(id) ==
    /\ worker' = [worker EXCEPT ![id].pc = "cleanup", ![id].attempts = 0,
                                ![id].preserve_temp_file = TRUE]
    /\ mailbox' = Sent(id, <<ConflictMsg(id, worker[id].src, worker[id].src)>>)
    /\ terminal_sent' = [terminal_sent EXCEPT ![id] = @ \cup {"FileConflict"}]

\* process.rs 542-545: the move result Ok.
ReportCompleted(id) ==
    /\ worker' = [worker EXCEPT ![id].pc = "cleanup", ![id].attempts = 0]
    /\ mailbox' = Sent(id, <<[type |-> "JobCompleted", id |-> id,
                              output_path |-> worker[id].src]>>)
    /\ terminal_sent' = [terminal_sent EXCEPT ![id] = @ \cup {"JobCompleted"}]

\* process.rs 556-559: any other move error.
ReportMoveFailed(id) ==
    /\ worker' = [worker EXCEPT ![id].pc = "cleanup", ![id].attempts = 0]
    /\ mailbox' = Sent(id, <<construct_error(id, <<"File", "move", "failed">>,
                                             <<"os", "error">>)>>)
    /\ terminal_sent' = [terminal_sent EXCEPT ![id] = @ \cup {"JobError"}]

\* robust_move_file: "if dest.exists()" (process.rs 133)
dest_exists(lib, dest) == lib[dest] # None

\* robust_move_file, the existence check at the head of its loop (process.rs 130-135).
WorkerMoveCheck(id) ==
    /\ worker[id].pc = "move_check"
    /\ CanSend(id)
    /\ IF dest_exists(library, worker[id].src)
       THEN RaiseConflict(id)
       ELSE /\ worker' = [worker EXCEPT ![id].pc = "move_rename"]
            /\ UNCHANGED <<mailbox, terminal_sent>>
    /\ UNCHANGED <<mgrVars, actor, persistence_chan, jobs_json, config, procs,
                   signalled, fsVars, obsVars>>
    /\ UNCHANGED auxVars

\* What a destination holds while fs::copy is writing it, and after a copy that
\* failed part way: some of the bytes of the source.
Partial == "partial"

\* robust_move_file, fs::rename and what follows it (process.rs 137-157).
\* outcome: the rename succeeds (replacing whatever is at the destination), it
\* reports AlreadyExists, or it fails otherwise; after more than
\* MaxRenameAttempts failures fs::copy either fails before it writes or starts
\* writing the destination.
WorkerMoveRename(id, outcome) ==
    /\ worker[id].pc = "move_rename"
    /\ CanSend(id)
    /\ LET w == worker[id]
           src_there == staged[id] = w.src
       IN  CASE outcome = "renamed" ->
                  /\ src_there
                  /\ library' = [library EXCEPT ![w.src] = id]
                  /\ staged' = [staged EXCEPT ![id] = None]
                  /\ ReportCompleted(id)
             [] outcome = "already_exists" ->
                  /\ library[w.src] # None
                  /\ RaiseConflict(id)
                  /\ UNCHANGED <<library, staged>>
             [] outcome = "failed" ->
                  /\ w.attempts + 1 <= MaxRenameAttempts
                  /\ worker' = [worker EXCEPT ![id].pc = "move_check",
                                              ![id].attempts = @ + 1]
                  /\ UNCHANGED <<mailbox, terminal_sent, library, staged>>
             [] outcome = "failed_copying" ->
                  /\ w.attempts + 1 > MaxRenameAttempts
                  /\ src_there
                  /\ library' = [library EXCEPT ![w.src] = Partial]
                  /\ worker' = [worker EXCEPT ![id].pc = "move_copy", ![id].attempts = 0]
                  /\ UNCHANGED <<mailbox, terminal_sent, staged>>
             [] outcome = "failed_copy_failed" ->
                  /\ w.attempts + 1 > MaxRenameAttempts
                  /\ ReportMoveFailed(id)
                  /\ UNCHANGED <<library, staged>>
    /\ UNCHANGED <<mgrVars, actor, persistence_chan, jobs_json, config, procs,
                   signalled, stage_dir, obsVars>>
    /\ UNCHANGED auxVars

\* robust_move_file, the end of the fs::copy fallback (process.rs 149-153): the
\* copy completes and the source is removed, or it fails with the destination
\* left as written so far.
WorkerMoveCopy(id, copied) ==
    /\ worker[id].pc = "move_copy"
    /\ CanSend(id)
    /\ IF copied
       THEN /\ library' = [library EXCEPT ![worker[id].src] = id]
            /\ staged' = [staged EXCEPT ![id] = None]
            /\ ReportCompleted(id)
       ELSE /\ ReportMoveFailed(id)
            /\ UNCHANGED <<library, staged>>
    /\ UNCHANGED <<mgrVars, actor, persistence_chan, jobs_json, config, procs,
                   signalled, stage_dir, obsVars>>
    /\ UNCHANGED auxVars

\* Faulty variant of removes_stage_dir: the stage directory is always removed.
removes_stage_dir_always(w) == TRUE

\* process.rs 593: "if !preserve_temp_file"
removes_stage_dir(w) == ~w.preserve_temp_file

\* The end of run_download_process (process.rs 592-612) and the drop of its guard.
WorkerCleanup(id) ==
    /\ worker[id].pc = "cleanup"
    /\ CanSend(id)
    /\ worker' = [worker EXCEPT ![id] = DoneWorker(@)]
    /\ IF removes_stage_dir(worker[id])
       THEN /\ stage_dir' = [stage_dir EXCEPT ![id] = FALSE]
            /\ staged' = [staged EXCEPT ![id] = None]
       ELSE UNCHANGED <<stage_dir, staged>>
    /\ mailbox' = Sent(id, <<WorkerFinishedMsg>>)
    /\ UNCHANGED <<mgrVars, actor, persistence_chan, jobs_json, config, procs,
                   signalled, terminal_sent, library, obsVars>>
    /\ UNCHANGED auxVars

\* ========================================================== normalisation
\* HistoryManager::normalize_url (core/history.rs 139-189).  A string is a
\* sequence of tokens: a URL "https://youtu.be/abc?t=5" is
\* <<"https", "://", "youtu.be", "/", "abc", "?", "t", "=", "5">>.

Schemes == {"http", "https"}

\* The first position of token t in s at or after position i, 0 if none.
RECURSIVE IndexFrom(_, _, _)
IndexFrom(s, t, i) ==
    IF i > Len(s) THEN 0
    ELSE IF s[i] = t THEN i
    ELSE IndexFrom(s, t, i + 1)

\* str::split(sep) for a one-token separator.
RECURSIVE Split(_, _)
Split(s, sep) ==
    LET i == IndexFrom(s, sep, 1)
    IN  IF i = 0 THEN <<s>>
        ELSE <<SubSeq(s, 1, i - 1)>> \o Split(SubSeq(s, i + 1, Len(s)), sep)

\* str::trim_start_matches(t) and str::trim_end_matches(t).
RECURSIVE trim_start_matches(_, _)
trim_start_matches(s, t) ==
    IF s # << >> /\ Head(s) = t THEN trim_start_matches(Tail(s), t) ELSE s

RECURSIVE trim_end_matches(_, _)
trim_end_matches(s, t) ==
    IF s # << >> /\ s[Len(s)] = t
    THEN trim_end_matches(SubSeq(s, 1, Len(s) - 1), t)
    ELSE s

\* str::trim
trim(s) == trim_end_matches(trim_start_matches(s, " "), " ")

\* form_urlencoded: byte "/" of a value is written as "%2F" and read back.
EncodeValue(v) == [i \in DOMAIN v |-> IF v[i] = "/" THEN "%2F" ELSE v[i]]
DecodeValue(v) == [i \in DOMAIN v |-> IF v[i] = "%2F" THEN "/" ELSE v[i]]

\* Url::query_pairs: the pairs of a query string k=v&k=v.
query_pairs(q) ==
    IF q = << >> THEN << >>
    ELSE LET parts == Split(q, "&")
         IN  [i \in DOMAIN parts |->
                LET kv == parts[i]
                    e == IndexFrom(kv, "=", 1)
                IN  IF e = 0 THEN [k |-> kv, v |-> << >>]
                    ELSE [k |-> SubSeq(kv, 1, e - 1),
                          v |-> DecodeValue(SubSeq(kv, e + 1, Len(kv)))]]

\* The query string append_pair writes for a sequence of pairs.
RECURSIVE QueryString(_)
QueryString(pairs) ==
    IF pairs = << >> THEN << >>
    ELSE Head(pairs).k \o <<"=">> \o EncodeValue(Head(pairs).v)
         \o (IF Tail(pairs) = << >> THEN << >> ELSE <<"&">>)
         \o QueryString(Tail(pairs))

ParseError == [ok |-> FALSE]

\* Url::parse for scheme://host/path?query: the path of a URL without one is
\* "/"; anything without "scheme://host" is an error (a relative URL).
UrlParse(raw) ==
    IF Len(raw) >= 3 /\ raw[1] \in Schemes /\ raw[2] = "://"
       /\ raw[3] \notin {"/", "?", "://"}
    THEN LET rest == SubSeq(raw, 4, Len(raw))
             q == IndexFrom(rest, "?", 1)
             path == IF q = 0 THEN rest ELSE SubSeq(rest, 1, q - 1)
         IN  [ok |-> TRUE, scheme |-> raw[1], host |-> raw[3],
              path |-> IF path = << >> THEN <<"/">> ELSE path,
              has_query |-> q # 0,
              query |-> IF q = 0 THEN << >>
                        ELSE SubSeq(rest, q + 1, Len(rest))]
    ELSE ParseError

\* Url::to_string
as_str(url) ==
    <<url.scheme, "://", url.host>> \o url.path
    \o (IF url.has_query THEN <<"?">> \o url.query ELSE << >>)

\* host.starts_with("www.") and &host[4..]
StartsWithWww(host) ==
    host \in {"www.youtube.com", "www.youtu.be", "www.example.com",
              "www.m.youtube.com"}
StripWww(host) ==
    CASE host = "www.youtube.com" -> "youtube.com"
      [] host = "www.youtu.be" -> "youtu.be"
      [] host = "www.example.com" -> "example.com"
      [] host = "www.m.youtube.com" -> "m.youtube.com"
      [] OTHER -> host

\* d.contains("youtube")
ContainsYoutube(host) ==
    host \in {"youtube.com", "www.youtube.com", "m.youtube.com",
              "www.m.youtube.com"}

AllowedParams == {<<"v">>, <<"list">>, <<"id">>}
TrackingParams == {<<"utm_source">>, <<"utm_medium">>, <<"utm_campaign">>,
                   <<"si">>, <<"feature">>, <<"ab_channel">>}

\* The host rewrites (history.rs 144-160): one branch of the if / else-if chain.
RewriteHost(url) ==
    CASE url.host = "youtu.be" ->
           LET path == trim_start_matches(url.path, "/")
           IN  IF path # << >>
               THEN UrlParse(<<"https", "://", "youtube.com", "/", "watch",
                               "?", "v", "=">> \o path)
               ELSE url
      [] url.host = "m.youtube.com" -> [url EXCEPT !.host = "youtube.com"]
      [] StartsWithWww(url.host) -> [url EXCEPT !.host = StripWww(url.host)]
      [] OTHER -> url

\* The parameter filter (history.rs 162-184).  query_pairs_mut() gives the URL
\* a query, which stays, empty, when no pair is appended.
FilterParams(url) ==
    LET current_params == query_pairs(url.query)
        keep(p) == IF ContainsYoutube(url.host) THEN p.k \in AllowedParams
                   ELSE p.k \notin TrackingParams
    IN  [url EXCEPT !.has_query = TRUE,
                    !.query = QueryString(SelectSeq(current_params, keep))]

\* as_str.split("://").last()
no_scheme(s) == LET parts == Split(s, "://") IN parts[Len(parts)]

\* HistoryManager::normalize_url
normalize_url(raw_url) ==
    LET url == UrlParse(raw_url)
    IN  IF ~url.ok THEN trim(raw_url)
        ELSE trim_end_matches(no_scheme(as_str(FilterParams(RewriteHost(url)))),
                              "/")

\* normalize_url is applied to the two URLs and to the result of the first.
NormalizeUrls(a, b) ==
    /\ norm.stage = "idle"
    /\ norm' = [stage |-> "done", a |-> a, b |-> b,
                na |-> normalize_url(a),
                nb |-> normalize_url(b),
                nna |-> normalize_url(normalize_url(a))]
    /\ UNCHANGED <<coreVars, xfer, hist, calls, deps, stream, retry>>

\* ================================================================== history
\* HistoryManager (core/history.rs) and the history helpers of the download
\* command (commands/downloader.rs 19-56), which use the same file.

UA == <<"https", "://", "www.youtube.com", "/", "watch", "?", "v", "=", "abc">>
UB == <<"https", "://", "youtube.com", "/", "watch", "?", "v", "=", "abc">>
UC == <<"https", "://", "example.com", "/", "abc">>
HistoryUrls == {UA, UB, UC}

\* HistoryManager::exists
exists(url) == normalize_url(url) \in hist.cache

\* HistoryManager::add: nothing is sent for a URL whose canonical form is in
\* the set; otherwise Add(url) goes to the writer's mailbox.
HistoryAdd(url) ==
    /\ Len(hist.file) + Len(hist.mailbox) < MaxHistoryLines
    /\ ~exists(url)
    /\ Len(hist.mailbox) < HistoryMailboxCapacity
    /\ hist' = [hist EXCEPT !.mailbox = Append(@, [type |-> "Add", url |-> url])]
    /\ UNCHANGED <<coreVars, xfer, norm, calls, deps, stream, retry>>

\* HistoryManager::save_content
HistorySave(content) ==
    /\ Len(hist.mailbox) < HistoryMailboxCapacity
    /\ hist' = [hist EXCEPT
                   !.mailbox = Append(@, [type |-> "Replace", content |-> content])]
    /\ UNCHANGED <<coreVars, xfer, norm, calls, deps, stream, retry>>

\* HistoryManager::clear
HistoryClear ==
    /\ Len(hist.mailbox) < HistoryMailboxCapacity
    /\ hist' = [hist EXCEPT !.mailbox = Append(@, [type |-> "Clear"])]
    /\ UNCHANGED <<coreVars, xfer, norm, calls, deps, stream, retry>>

\* The canonical forms of the non-empty lines.
NormalizedLines(lines) ==
    {normalize_url(lines[i]) : i \in {k \in DOMAIN lines : trim(lines[k]) # << >>}}

WriterOutcomes == {"ok", "open_failed", "write_failed"}

\* The writer task takes one message (history.rs 58-131).  File::create
\* empties the file before anything is written.
HistoryWriter(outcome) ==
    /\ hist.mailbox # << >>
    /\ LET msg == Head(hist.mailbox)
           rest == [hist EXCEPT !.mailbox = Tail(@)]
       IN  hist' =
             CASE outcome = "open_failed" -> rest
               [] msg.type = "Add" ->
                    IF outcome = "ok"
                    THEN [rest EXCEPT !.file = Append(@, msg.url),
                                      !.cache = @ \cup {normalize_url(msg.url)}]
                    ELSE rest
               [] msg.type = "Replace" ->
                    IF outcome = "ok"
                    THEN [rest EXCEPT !.file = msg.content,
                                      !.cache = NormalizedLines(msg.content)]
                    ELSE [rest EXCEPT !.file = << >>]
               [] OTHER ->
                    [rest EXCEPT !.file = << >>, !.cache = {}]
    /\ UNCHANGED <<coreVars, xfer, norm, calls, deps, stream, retry>>

\* load_history (downloader.rs 24-40): the trimmed non-empty lines.
load_history(lines) ==
    {trim(lines[i]) : i \in {k \in DOMAIN lines : trim(lines[k]) # << >>}}

\* A spawned append_history task runs (downloader.rs 42-56): it appends its
\* URLs to the file itself.
AppendHistory(opened) ==
    /\ hist.appends # << >>
    /\ hist' = [hist EXCEPT
                   !.appends = Tail(@),
                   !.file = IF opened THEN @ \o Head(hist.appends) ELSE @]
    /\ UNCHANGED <<coreVars, xfer, norm, calls, deps, stream, retry>>

\* ================================================================= commands
\* expand_playlist and start_download (commands/downloader.rs 138-264).

\* Probe subprocesses that are running.
InFlightProbes == Cardinality({c \in CallIds : calls[c].pc = "probing"})

\* expand_playlist is called: probe_url starts on the blocking pool.
ExpandPlaylist(c) ==
    /\ calls[c].pc = "idle"
    /\ calls' = [calls EXCEPT ![c] = [@ EXCEPT !.pc = "probing",
                                               !.kind = "expand"]]
    /\ UNCHANGED <<coreVars, xfer, norm, hist, deps, stream, retry>>

\* start_download is called: the URL and the template are validated, then
\* probe_url starts on the blocking pool.
StartDownload(c, valid, forced, whitelisted, whitelist) ==
    /\ calls[c].pc = "idle"
    /\ calls' = [calls EXCEPT ![c] =
                   IF valid
                   THEN [@ EXCEPT !.pc = "probing", !.kind = "start",
                                  !.forced = forced,
                                  !.whitelisted = whitelisted,
                                  !.whitelist = whitelist]
                   ELSE [@ EXCEPT !.pc = "done", !.kind = "start",
                                  !.result = "ValidationFailed"]]
    /\ UNCHANGED <<coreVars, xfer, norm, hist, deps, stream, retry>>

\* The end of start_download (downloader.rs 251-263): the append_history task
\* is spawned and the response returned.
Finished(call) == [call EXCEPT !.pc = "done", !.result = "Ok"]

SpawnedAppends(call) ==
    IF call.urls_to_archive # << >> THEN <<call.urls_to_archive>> ELSE << >>

\* The probe of call c ends.
ProbeExit(c, succeeded, entries) ==
    /\ calls[c].pc = "probing"
    /\ calls' = [calls EXCEPT ![c] =
                   CASE ~succeeded ->
                          [@ EXCEPT !.pc = "done", !.result = "ProcessFailed"]
                     [] @.kind = "expand" ->
                          [@ EXCEPT !.pc = "done", !.entries = entries,
                                    !.result = "Ok"]
                     [] OTHER ->
                          [@ EXCEPT !.pc = "probed", !.entries = entries,
                                    !.total_found = Len(entries)]]
    /\ UNCHANGED <<coreVars, xfer, norm, hist, deps, stream, retry>>

\* start_download reads the history file (downloader.rs 198) and goes on to
\* its loop.
LoadHistory(c) ==
    /\ calls[c].pc = "probed"
    /\ LET loaded == [calls[c] EXCEPT !.pc = "loop", !.i = 1,
                                      !.history = load_history(hist.file)]
       IN  calls' = [calls EXCEPT ![c] =
                       IF loaded.entries = << >> THEN Finished(loaded)
                       ELSE loaded]
    /\ UNCHANGED <<coreVars, xfer, norm, hist, deps, stream, retry>>

\* One turn of the loop of start_download (downloader.rs 207-249), and the end
\* of the command after the last turn.
LoopEntry(c, restrict) ==
    /\ calls[c].pc = "loop"
    /\ LET call == calls[c]
           url == call.entries[call.i]
           last == call.i = Len(call.entries)
           After(next) == IF last THEN Finished(next)
                          ELSE [next EXCEPT !.i = @ + 1]
           Appends(next) == IF last THEN hist.appends \o SpawnedAppends(next)
                            ELSE hist.appends
       IN  CASE call.whitelisted /\ url \notin call.whitelist ->
                  /\ calls' = [calls EXCEPT ![c] = After(call)]
                  /\ hist' = [hist EXCEPT !.appends = Appends(call)]
                  /\ UNCHANGED coreVars
             [] ~call.forced /\ url \in call.history ->
                  LET next == [call EXCEPT !.skipped_urls = Append(@, url)]
                  IN  /\ calls' = [calls EXCEPT ![c] = After(next)]
                      /\ hist' = [hist EXCEPT !.appends = Appends(next)]
                      /\ UNCHANGED coreVars
             [] OTHER ->
                  \E job_id \in Ids \ DOMAIN jobs :
                      LET next ==
                            IF AddJobResponse(jobs, job_id, url) = "Ok"
                            THEN [call EXCEPT
                                    !.job_ids = Append(@, job_id),
                                    !.urls_to_archive =
                                       IF url \notin call.history
                                       THEN Append(@, url) ELSE @]
                            ELSE call
                      IN  /\ add_job(job_id, url, restrict)
                          /\ calls' = [calls EXCEPT ![c] = After(next)]
                          /\ hist' = [hist EXCEPT !.appends = Appends(next)]
    /\ UNCHANGED <<xfer, norm, deps, stream, retry>>

\* ============================================================ stream loop
\* The lines a child prints, by what the stream loop tests of them (process.rs
\* 401-470): the marker the trimmed line starts with, and whether the test that
\* follows the marker succeeds (the JSON parses as a progress record, the line
\* matches DOWNLOAD_START_REGEX or FIXUP_REGEX); for a progress record, the
\* percentage its byte counts give (-1: it has no usable byte counts).
Markers ==
    {"{", "[download]", "[Metadata]", "[Thumbnails]", "[EmbedThumbnail]", "[Merger]",
     "[ExtractAudio]", "[Fixup", "[MoveFiles]", "[ffmpeg]", "other"}
OutputLines == [marker : Markers, matches : BOOLEAN, percentage : {-1, 50}]

\* process.rs 419-421: the phases a JSON progress record does not override.
keeps_phase_on_progress(state_phase) ==
    \/ contains(state_phase, <<"Merging">>)
    \/ contains(state_phase, <<"Extracting">>)
    \/ contains(state_phase, <<"Writing">>)
    \/ contains(state_phase, <<"Embedding">>)
    \/ contains(state_phase, <<"Fixing">>)
    \/ contains(state_phase, <<"Moving">>)

\* process.rs 468: the phases an [ffmpeg] line does not override.
keeps_phase_on_ffmpeg(state_phase) ==
    contains(state_phase, <<"Merging">>) \/ contains(state_phase, <<"Extracting">>)

\* One pass of the stream loop over a line (process.rs 397-472): the phase
\* and the percentage after the line and whether an UpdateProgress is sent.
interpret_line(state_phase, state_percentage, line) ==
    LET set(ph, pct) ==
            [state_phase |-> ph, state_percentage |-> pct, emit_update |-> TRUE]
        skip == [state_phase |-> state_phase, state_percentage |-> state_percentage,
                 emit_update |-> FALSE]
    IN  CASE line.marker = "{" ->
                 IF line.matches
                 THEN set(IF keeps_phase_on_progress(state_phase)
                          THEN state_phase ELSE <<"Downloading">>,
                          IF line.percentage >= 0 THEN line.percentage
                          ELSE state_percentage)
                 ELSE skip
          [] line.marker = "[download]" ->
                 IF line.matches THEN set(<<"Starting", "Download">>, state_percentage)
                 ELSE skip
          [] line.marker = "[Metadata]" -> set(<<"Writing", "Metadata">>, 99)
          [] line.marker \in {"[Thumbnails]", "[EmbedThumbnail]"} ->
                 set(<<"Embedding", "Thumbnail">>, 99)
          [] line.marker = "[Merger]" -> set(<<"Merging", "Formats">>, 100)
          [] line.marker = "[ExtractAudio]" -> set(<<"Extracting", "Audio">>, 100)
          [] line.marker = "[Fixup" ->
                 IF line.matches THEN set(<<"Fixing", "Container">>, 100) ELSE skip
          [] line.marker = "[MoveFiles]" -> set(<<"Finalizing">>, 100)
          [] line.marker = "[ffmpeg]" ->
                 IF keeps_phase_on_ffmpeg(state_phase)
                 THEN skip ELSE set(<<"Processing", "(FFmpeg)">>, state_percentage)
          [] OTHER -> skip

\* The stream loop takes one line of the child (process.rs 369-484).
ReadLine(line) ==
    /\ stream.lines < MaxLines
    /\ LET r == interpret_line(stream.state_phase, stream.state_percentage, line)
       IN  stream' = [state_phase |-> r.state_phase,
                      state_percentage |-> r.state_percentage,
                      lines |-> stream.lines + 1,
                      update |-> IF r.emit_update THEN r.state_phase ELSE stream.update]
    /\ UNCHANGED <<coreVars, xfer, norm, hist, calls, deps, retry>>

\* ===================================================== dependency installer
\* The names the host passes to install_dependency.
DependencyNames == {"yt-dlp", "ffmpeg", "aria2", "aria2c", "unknown"}

\* deps.rs get_provider (347-356): the provider of a name, None when there is
\* none.  "aria2" and "aria2c" name one provider.
get_provider(name) ==
    CASE name = "yt-dlp" -> "YtDlpProvider"
      [] name = "ffmpeg" -> "FfmpegProvider"
      [] name = "deno" -> "DenoProvider"
      [] name = "bun" -> "BunProvider"
      [] name \in {"aria2", "aria2c"} -> "Aria2Provider"
      [] OTHER -> None

\* The installs of provider that are running.
RunningInstalls(provider) ==
    {c \in InstallCallIds : provider \in deps.call[c].running}

\* system.rs 229: "if locks.contains(&name)"
lock_held(locks, name) == name \in locks

\* install_dependency up to the first suspension of provider.install
\* (system.rs 226-235, deps.rs 358-371): the name is rejected while it is in
\* INSTALL_LOCKS; otherwise it is inserted and install_dep runs, which fails
\* at once for a name without provider, so that the lock is released again.
InstallDependency(c, name) ==
    /\ deps.call[c].pc = "idle"
    /\ LET call == [deps.call[c] EXCEPT !.kind = "install", !.name = name]
       IN  deps' =
             IF lock_held(deps.locks, name)
             THEN [deps EXCEPT !.call[c] =
                     [call EXCEPT !.pc = "done", !.result = "already in progress"]]
             ELSE IF get_provider(name) = None
             THEN [deps EXCEPT !.call[c] =
                     [call EXCEPT !.pc = "done", !.result = "Unknown dependency"]]
             ELSE [deps EXCEPT !.locks = @ \cup {name},
                               !.call[c] = [call EXCEPT !.pc = "installing",
                                               !.running = {get_provider(name)}]]
    /\ UNCHANGED <<coreVars, xfer, norm, hist, calls, stream, retry>>

\* provider.install returns to install_dependency with success or an error
\* (system.rs 235-243): the name leaves INSTALL_LOCKS and the result is
\* returned.
InstallReturns(c, ok) ==
    /\ deps.call[c].pc = "installing"
    /\ deps.call[c].kind = "install"
    /\ deps' = [deps EXCEPT
                   !.locks = @ \ {deps.call[c].name},
                   !.call[c] = [@ EXCEPT !.pc = "done", !.running = {},
                                         !.result = IF ok THEN "Ok" ELSE "Err"]]
    /\ UNCHANGED <<coreVars, xfer, norm, hist, calls, stream, retry>>

\* YtDlpProvider::check_update_available (deps.rs 211-217), with unwrap_or(false)
\* of its caller: true without a local binary, else whether the remote tag
\* was fetched and differs from the local version.
check_update_available(yt_exists, remote_differs) == ~yt_exists \/ remote_differs

\* sync_dependencies (system.rs 246-273) with auto_update_yt_dlp and
\* install_missing_ffmpeg (deps.rs 331-345): yt-dlp is installed when an
\* update is available, ffmpeg when its file is missing and the join runs;
\* INSTALL_LOCKS is not consulted.
SyncDependencies(c, yt_exists, ff_exists, remote_differs) ==
    /\ deps.call[c].pc = "idle"
    /\ LET installs ==
              (IF check_update_available(yt_exists, remote_differs)
               THEN {"YtDlpProvider"} ELSE {})
              \cup (IF ~yt_exists \/ ~ff_exists
                    THEN IF ~ff_exists THEN {"FfmpegProvider"} ELSE {}
                    ELSE {})
       IN  deps' = [deps EXCEPT !.call[c] =
                      [@ EXCEPT !.kind = "sync",
                                !.pc = IF installs = {} THEN "done" ELSE "installing",
                                !.running = installs,
                                !.result = IF installs = {} THEN "Ok" ELSE "none"]]
    /\ UNCHANGED <<coreVars, xfer, norm, hist, calls, stream, retry>>

\* An install started by sync_dependencies ends: it returns, or the 60 s
\* timeout drops it.
SyncInstallEnds(c, provider) ==
    /\ deps.call[c].pc = "installing"
    /\ deps.call[c].kind = "sync"
    /\ provider \in deps.call[c].running
    /\ LET left == deps.call[c].running \ {provider}
       IN  deps' = [deps EXCEPT !.call[c] =
                      [@ EXCEPT !.running = left,
                                !.pc = IF left = {} THEN "done" ELSE "installing",
                                !.result = IF left = {} THEN "Ok" ELSE "none"]]
    /\ UNCHANGED <<coreVars, xfer, norm, hist, calls, stream, retry>>

\* ================================================================ transport
\* One call of transport::download_file_robust (transport/mod.rs) with the
\* external downloader adapter (transport/aria.rs) and the native engine
\* (transport/engine.rs).  A request is one step: the status of the response,
\* the number r of body bytes received and the way the stream ended are the
\* inputs.  The server answers a range request with the bytes of that range.

\* The bytes start .. start+n-1 of the resource.
Bytes(start, n) == [i \in 1..n |-> start + i - 1]

HttpStatuses == {"ok", "404", "500"}
\* stream.next() gives None (eof), does not answer within IO_TIMEOUT, or gives
\* an error.
Endings == {"eof", "timeout", "error"}
\* fallback_size: Option<u64>, 0 for None.
FallbackSizes == {0, 3}

\* Faulty variant of ChunkOf: the last chunk ends like the others and does not
\* take the remainder of the division.
ChunkOf_without_remainder(i, total_size) ==
    LET chunk_size == total_size \div Concurrency
        start == i * chunk_size
        end == (i + 1) * chunk_size - 1
    IN  [index |-> i, start |-> start, end |-> end, len |-> end - start + 1]

\* Chunk i (from 0) of download_concurrent.
ChunkOf(i, total_size) ==
    LET chunk_size == total_size \div Concurrency
        start == i * chunk_size
        end == IF i = Concurrency - 1 THEN total_size - 1
               ELSE (i + 1) * chunk_size - 1
    IN  [index |-> i, start |-> start, end |-> end, len |-> end - start + 1]

\* What the stream loop of attempt_linear and download_chunk yields: the
\* timeout is dropped by .ok() and ends the loop like the end of the stream.
stream_loop(ending) == IF ending = "error" THEN "Network" ELSE "Ok"

\* TransportEngine::attempt_linear; total_size 0 is None.
attempt_linear(total_size, status, r, ending) ==
    CASE status = "404" -> "HttpStatus404"
      [] status = "500" -> "HttpStatus"
      [] stream_loop(ending) # "Ok" -> stream_loop(ending)
      [] total_size # 0 /\ r # total_size -> "Validation"
      [] OTHER -> "Ok"

\* Faulty variant of download_chunk: the byte count is not validated.
download_chunk_unvalidated(chunk, status, r, ending) ==
    CASE status # "ok" -> "HttpStatus"
      [] OTHER -> stream_loop(ending)

\* TransportEngine::download_chunk.
download_chunk(chunk, status, r, ending) ==
    CASE status # "ok" -> "HttpStatus"
      [] stream_loop(ending) # "Ok" -> stream_loop(ending)
      [] r # chunk.len -> "Validation"
      [] OTHER -> "Ok"

\* The content merge_parts writes: the parts in the order of part_paths.
RECURSIVE merge_data(_)
merge_data(parts) ==
    IF parts = << >> THEN << >>
    ELSE Head(parts).file.data \o merge_data(Tail(parts))

\* download_file_robust is called; the destination may hold an older file.
DownloadFileRobust(use_aria, fallback_size, old) ==
    /\ xfer.pc = "idle"
    /\ xfer' = [xfer EXCEPT !.pc = IF use_aria THEN "aria" ELSE "probe",
                            !.use_aria = use_aria,
                            !.fallback = fallback_size,
                            !.dest = IF old THEN OldFile ELSE AbsentFile]
    /\ UNCHANGED <<coreVars, norm, hist, calls, deps, stream, retry>>

\* AriaEngine::execute runs to its end and download_file_robust takes its
\* result.  On success the file aria2c wrote has replaced the destination; on
\* failure the destination is removed and the function goes on to its last
\* line, Ok(()).
AriaExecute(succeeded, n) ==
    /\ xfer.pc = "aria"
    /\ xfer' = [xfer EXCEPT !.pc = "done",
                            !.mode = "aria",
                            !.dest = IF succeeded THEN FileOf(Bytes(0, n))
                                     ELSE AbsentFile,
                            !.result = "Ok"]
    /\ UNCHANGED <<coreVars, norm, hist, calls, deps, stream, retry>>

\* TransportEngine::execute up to the choice of the mode.
EngineProbe(status, content_len, accepts_ranges) ==
    /\ xfer.pc = "probe"
    /\ xfer' =
          CASE status = "404" ->
                 [xfer EXCEPT !.pc = "done", !.result = "HttpStatus404"]
            [] status = "500" ->
                 [xfer EXCEPT !.pc = "linear", !.mode = "linear"]
            [] OTHER ->
                 IF content_len # 0 /\ accepts_ranges
                    /\ content_len >= ChunkThreshold
                 THEN [xfer EXCEPT
                         !.pc = "chunks", !.mode = "concurrent",
                         !.len = content_len,
                         !.parts = [i \in 1..Concurrency |->
                                      [state |-> "todo", attempt |-> 0,
                                       file |-> AbsentFile,
                                       stalled |-> FALSE]]]
                 ELSE [xfer EXCEPT !.pc = "linear", !.mode = "linear",
                                   !.len = content_len]
    /\ UNCHANGED <<coreVars, norm, hist, calls, deps, stream, retry>>

\* One turn of the loop of download_linear.
LinearAttempt(status, r, ending) ==
    /\ xfer.pc = "linear"
    /\ LET res == attempt_linear(xfer.len, status, r, ending)
           reported == IF status = "ok" /\ r > 0 THEN {xfer.len} ELSE {}
           stalls == status = "ok" /\ ending = "timeout"
       IN  xfer' =
             CASE res = "Ok" ->
                    [xfer EXCEPT !.pc = "finalize",
                                 !.part = FileOf(Bytes(0, r)),
                                 !.totals = @ \cup reported,
                                 !.stalled = stalls]
               [] res = "HttpStatus404" ->
                    [xfer EXCEPT !.pc = "done", !.part = AbsentFile,
                                 !.result = res,
                                 !.totals = @ \cup reported,
                                 !.stalled = stalls]
               [] xfer.attempt >= MaxRetries ->
                    [xfer EXCEPT !.pc = "done", !.part = AbsentFile,
                                 !.result = "MaxRetriesExceeded",
                                 !.totals = @ \cup reported,
                                 !.stalled = stalls]
               [] OTHER ->
                    [xfer EXCEPT !.part = AbsentFile,
                                 !.attempt = @ + 1,
                                 !.totals = @ \cup reported,
                                 !.stalled = stalls]
    /\ UNCHANGED <<coreVars, norm, hist, calls, deps, stream, retry>>

\* One turn of the loop of the task of chunk i (from 1) in download_concurrent.
ChunkAttempt(i, status, r, ending) ==
    /\ xfer.pc = "chunks"
    /\ xfer.parts[i].state = "todo"
    /\ LET chunk == ChunkOf(i - 1, xfer.len)
           res == download_chunk(chunk, status, r, ending)
           file == IF status = "ok" THEN FileOf(Bytes(chunk.start, r))
                   ELSE xfer.parts[i].file
           reported == IF status = "ok" /\ r > 0 THEN {xfer.len} ELSE {}
           stalls == status = "ok" /\ ending = "timeout"
       IN  xfer' =
             [xfer EXCEPT
                !.parts[i] =
                   CASE res = "Ok" ->
                          [@ EXCEPT !.state = "ok", !.file = file,
                                    !.stalled = stalls]
                     [] @.attempt >= MaxRetries ->
                          [@ EXCEPT !.state = "failed", !.file = file,
                                    !.stalled = stalls]
                     [] OTHER ->
                          [@ EXCEPT !.attempt = @ + 1, !.file = file,
                                    !.stalled = stalls],
                !.totals = @ \cup reported]
    /\ UNCHANGED <<coreVars, norm, hist, calls, deps, stream, retry>>

\* download_concurrent after join_all: a failed chunk ends the call after
\* cleanup_parts; otherwise merge_parts writes the merge file and deletes the
\* parts.  An i/o error of the merge leaves the merge file behind.
JoinAll(copied) ==
    /\ xfer.pc = "chunks"
    /\ \A i \in 1..Concurrency : xfer.parts[i].state # "todo"
    /\ LET removed == [i \in 1..Concurrency |->
                         [xfer.parts[i] EXCEPT !.file = AbsentFile]]
       IN  xfer' =
             CASE \E i \in 1..Concurrency : xfer.parts[i].state = "failed" ->
                    [xfer EXCEPT !.pc = "done", !.parts = removed,
                                 !.result = "Validation"]
               [] ~copied ->
                    [xfer EXCEPT !.pc = "done", !.parts = removed,
                                 !.result = "FileSystem"]
               [] OTHER ->
                    [xfer EXCEPT !.pc = "finalize", !.parts = removed,
                                 !.part = FileOf(merge_data(xfer.parts))]
    /\ UNCHANGED <<coreVars, norm, hist, calls, deps, stream, retry>>

FinalizeRemovals == {"removed", "swapped", "remove_failed", "swap_failed"}

\* TransportEngine::finalize and the return of the mode that called it: the
\* older file is removed (or renamed aside when it is locked), then the
\* staging file is renamed to the destination.
Finalize(removal, renamed) ==
    /\ xfer.pc = "finalize"
    /\ LET blocked == xfer.dest.exists
                      /\ removal \in {"remove_failed", "swap_failed"}
           done == IF xfer.mode = "concurrent" THEN {xfer.len} ELSE {}
       IN  xfer' =
             CASE blocked ->
                    [xfer EXCEPT !.pc = "done", !.result = "FileSystem"]
               [] ~renamed ->
                    [xfer EXCEPT !.pc = "done", !.dest = AbsentFile,
                                 !.result = "FileSystem"]
               [] OTHER ->
                    [xfer EXCEPT !.pc = "done", !.dest = xfer.part,
                                 !.part = AbsentFile, !.result = "Ok",
                                 !.totals = @ \cup done]
    /\ UNCHANGED <<coreVars, norm, hist, calls, deps, stream, retry>>

\* ============================================================== retry policy
\* RetryPolicy (transport/retry.rs) and the two places of the engine that build
\* one.  base_delay_ms * 2^n is a u64; it is followed here through its bit
\* length, on which the overflow, the wrap-around and the cap depend, so that
\* no number beyond the cap has to be written down.

U64Bits == 64
base_delay_ms == 1000
DelayCap == 10000
\* RetryPolicy::new(5) in download_linear and in the task of a chunk.
LinearRetries == 5
ChunkRetries == 5

RECURSIVE BitLen(_)
BitLen(x) == IF x = 0 THEN 0 ELSE 1 + BitLen(x \div 2)

\* 2^CapBits > DelayCap: a value other than 0 shifted left by CapBits bits or
\* more lies above the cap.
CapBits == BitLen(DelayCap)

BackoffSome(ms) == [kind |-> "Some", ms |-> ms]
BackoffNone == [kind |-> "None", ms |-> 0]
\* The thread panics with 'attempt to multiply with overflow'.
BackoffPanic == [kind |-> "panic", ms |-> 0]

\* 2_u64.pow(n), or its product with base_delay_ms, does not fit in 64 bits.
delay_overflows(n) ==
    n >= U64Bits \/ BitLen(base_delay_ms) + n > U64Bits

\* min(delay, 10_000) with delay = base_delay_ms * 2_u64.pow(n) in wrapping
\* arithmetic: the bits of base_delay_ms that the shift keeps under 2^64.
capped_delay(n) ==
    LET kept == U64Bits - n
        low == IF n >= U64Bits THEN 0
               ELSE IF kept >= BitLen(base_delay_ms) THEN base_delay_ms
               ELSE base_delay_ms % (2 ^ kept)
    IN  IF low = 0 THEN 0
        ELSE IF n >= CapBits THEN DelayCap
        ELSE IF low * (2 ^ n) < DelayCap THEN low * (2 ^ n)
        ELSE DelayCap

\* RetryPolicy::new.
new(max_retries) == [max_retries |-> max_retries, current_attempt |-> 0]

\* RetryPolicy::next_backoff: what the call may return, with the policy it
\* leaves.  An overflow panics in a build with overflow checks and wraps in a
\* build without.
next_backoff(p) ==
    IF p.current_attempt >= p.max_retries
    THEN {[out |-> BackoffNone, policy |-> p]}
    ELSE LET n == p.current_attempt
             returned == [out |-> BackoffSome(capped_delay(n)),
                          policy |-> [p EXCEPT !.current_attempt = n + 1]]
         IN  IF delay_overflows(n)
             THEN {returned, [out |-> BackoffPanic, policy |-> p]}
             ELSE {returned}

\* download_linear builds its policy.
DownloadLinearPolicy ==
    /\ retry.owner = "none"
    /\ retry' = [RetryIdle EXCEPT !.owner = "download_linear",
                                  !.policy = new(LinearRetries)]
    /\ UNCHANGED <<coreVars, xfer, norm, hist, calls, deps, stream>>

\* The task of a chunk in download_concurrent builds its policy.
ChunkTaskPolicy ==
    /\ retry.owner = "none"
    /\ retry' = [RetryIdle EXCEPT !.owner = "chunk_task",
                                  !.policy = new(ChunkRetries)]
    /\ UNCHANGED <<coreVars, xfer, norm, hist, calls, deps, stream>>

\* Any other caller of the public constructor.
NewPolicy(max_retries) ==
    /\ retry.owner = "none"
    /\ retry' = [RetryIdle EXCEPT !.owner = "caller",
                                  !.policy = new(max_retries)]
    /\ UNCHANGED <<coreVars, xfer, norm, hist, calls, deps, stream>>

\* One call of next_backoff.  In the engine the call follows a failed attempt,
\* and the loop is left when it returns None.
NextBackoff ==
    /\ retry.owner # "none"
    /\ retry.last.kind # "panic"
    /\ retry.owner \in {"download_linear", "chunk_task"}
          => retry.last.kind # "None"
    /\ retry.asked < retry.policy.max_retries + ExtraCalls
    /\ \E o \in next_backoff(retry.policy) :
          retry' = [retry EXCEPT !.policy = o.policy, !.asked = @ + 1,
                                 !.last = o.out]
    /\ UNCHANGED <<coreVars, xfer, norm, hist, calls, deps, stream>>

\* ================================================================== system
Limits(mc, mt) == [max_concurrent_downloads |-> mc, max_total_instances |-> mt]

Init == \E file \in InitialJobsFiles : InitState(Limits(MaxLimit, MaxLimit), file)

\* What the host asks to download: a URL and the restrict-filenames option.
JobInputs == { [url |-> "u1", restrict_filenames |-> FALSE],
               [url |-> "u2", restrict_filenames |-> TRUE] }

\* How a child process can end: <<exit status ok, stderr, output file>>.
CloseOutcomes ==
    { <<TRUE, << >>, "a">>, <<TRUE, << >>, "b">>, <<TRUE, << >>, None>> }
    \cup { <<FALSE, blob, None>> : blob \in StderrBlobs }
SpawnOutcomes == {"no_dir", "spawn_failed", "spawned"}
RenameOutcomes == {"renamed", "already_exists", "failed", "failed_copying", "failed_copy_failed"}

\* The steps of the workers and of their child processes, for the given
\* outcomes of spawning, of the child and of the rename.
WorkerStep(id, spawns, closes, renames) ==
    \/ WorkerStart(id)
    \/ \E o \in spawns : WorkerSpawn(id, o)
    \/ ProcLine(id)
    \/ \E c \in closes : ProcClose(id, c[1], c[2], c[3])
    \/ ProcExit(id)
    \/ WorkerWait(id)
    \/ WorkerMoveCheck(id)
    \/ \E o \in renames : WorkerMoveRename(id, o)
    \/ \E copied \in BOOLEAN : WorkerMoveCopy(id, copied)
    \/ WorkerCleanup(id)

\* The steps of a worker whose child prints no progress and either succeeds,
\* leaving a file that is not yet in the library, or fails with a non-fatal error.
PlainWorkerStep(id) ==
    \/ WorkerStart(id)
    \/ WorkerSpawn(id, "spawned")
    \/ ProcClose(id, TRUE, << >>, "b")
    \/ ProcClose(id, FALSE, StderrSignIn, None)
    \/ ProcExit(id)
    \/ WorkerWait(id)
    \/ WorkerMoveCheck(id)
    \/ WorkerMoveRename(id, "renamed")
    \/ WorkerCleanup(id)

\* ---- Spec: two jobs of different URLs competing for the slots; the host adds,
\* cancels, resumes and reconfigures.
Next ==
    \/ AddJob("j1", "u1", FALSE)
    \/ AddJob("j2", "u2", FALSE)
    \/ \E id \in Ids : CancelJob(id)
    \/ ResumePending
    \/ \E mc, mt \in LimitValues : UpdateGeneral(mc, mt)
    \/ \E id \in Ids : ManagerRecv(id)
    \/ \E id \in Ids : PlainWorkerStep(id)

Spec == Init /\ [][Next]_vars

\* ---- SpecAdmit: two job ids and two URLs under a fixed configuration.
NextAdmit ==
    \/ \E id \in Ids, url \in Urls : AddJob(id, url, FALSE)
    \/ \E id \in Ids : CancelJob(id)
    \/ ResumePending
    \/ \E id \in Ids : ManagerRecv(id)
    \/ \E id \in Ids : PlainWorkerStep(id)

SpecAdmit == Init /\ [][NextAdmit]_vars

\* ---- SpecJob: the whole life of one job, with every outcome of its worker,
\* under AddJob, CancelJob and ResumePending.
NextJob ==
    \/ \E in \in JobInputs : AddJob("j1", in.url, in.restrict_filenames)
    \/ CancelJob("j1")
    \/ ResumePending
    \/ ManagerRecv("j1")
    \/ WorkerStep("j1", SpawnOutcomes, CloseOutcomes, RenameOutcomes)

SpecJob == Init /\ [][NextJob]_vars

\* ---- FairSpec: one job that the host never cancels.  The manager keeps
\* receiving, the worker keeps running and a child that has closed its streams
\* exits; nothing makes a child close its streams.
NextUncancelled ==
    \/ \E in \in JobInputs : AddJob("j1", in.url, in.restrict_filenames)
    \/ ManagerRecv("j1")
    \/ WorkerStep("j1", SpawnOutcomes, CloseOutcomes, RenameOutcomes)

FairSpec ==
    /\ InitState(Limits(MaxLimit, MaxLimit), NoFile)
    /\ [][NextUncancelled]_vars
    /\ WF_vars(ManagerRecv("j1"))
    /\ WF_vars(WorkerStart("j1"))
    /\ WF_vars(\E o \in SpawnOutcomes : WorkerSpawn("j1", o))
    /\ WF_vars(ProcExit("j1"))
    /\ WF_vars(WorkerWait("j1"))
    /\ WF_vars(WorkerMoveCheck("j1"))
    /\ WF_vars(\E o \in RenameOutcomes : WorkerMoveRename("j1", o))
    /\ WF_vars(\E copied \in BOOLEAN : WorkerMoveCopy("j1", copied))
    /\ WF_vars(WorkerCleanup("j1"))

\* ---- SpecTick: one job with the 100 ms tick and the persistence task.
NextTick ==
    \/ AddJob("j1", "u1", FALSE)
    \/ CancelJob("j1")
    \/ ManagerRecv("j1")
    \/ Tick
    \/ \E ok \in BOOLEAN : PersistenceWrite(ok)
    \/ WorkerStep("j1", SpawnOutcomes, CloseOutcomes, RenameOutcomes)

SpecTick == InitState(Limits(MaxLimit, MaxLimit), NoFile) /\ [][NextTick]_vars

\* ---- SpecPersist: two jobs and one slot, with the tick, the persistence task
\* and the shutdown of the actor.
NextPersist ==
    \/ \E id \in Ids, url \in Urls : AddJob(id, url, FALSE)
    \/ Tick
    \/ \E ok \in BOOLEAN : PersistenceWrite(ok)
    \/ ClearPending
    \/ Shutdown
    \/ \E id \in Ids : ShutdownDrain(id)
    \/ ShutdownFinish
    \/ \E id \in Ids : ManagerRecv(id)
    \/ \E id \in Ids : PlainWorkerStep(id)

SpecPersist == InitState(Limits(1, 1), NoFile) /\ [][NextPersist]_vars

\* ---- SpecRace: two jobs whose children leave the same file name, with every
\* outcome of the rename.
NextRace ==
    \/ AddJob("j1", "u1", FALSE)
    \/ AddJob("j2", "u2", FALSE)
    \/ \E id \in Ids : ManagerRecv(id)
    \/ \E id \in Ids : WorkerStart(id)
    \/ \E id \in Ids : WorkerSpawn(id, "spawned")
    \/ \E id \in Ids : ProcClose(id, TRUE, << >>, "b")
    \/ \E id \in Ids : ProcExit(id)
    \/ \E id \in Ids : WorkerWait(id)
    \/ \E id \in Ids : WorkerMoveCheck(id)
    \/ \E id \in Ids, o \in RenameOutcomes : WorkerMoveRename(id, o)
    \/ \E id \in Ids, copied \in BOOLEAN : WorkerMoveCopy(id, copied)
    \/ \E id \in Ids : WorkerCleanup(id)

SpecRace == InitState(Limits(MaxLimit, MaxLimit), NoFile) /\ [][NextRace]_vars

\* ---- SpecTransport: one call of download_file_robust, with every answer of
\* the server and every outcome of the file operations.
NextTransport ==
    \/ \E use_aria \in BOOLEAN, fallback_size \in FallbackSizes, old \in BOOLEAN :
          DownloadFileRobust(use_aria, fallback_size, old)
    \/ \E succeeded \in BOOLEAN, n \in 1..MaxLength : AriaExecute(succeeded, n)
    \/ \E status \in HttpStatuses, content_len \in 0..MaxLength,
          accepts_ranges \in BOOLEAN :
          EngineProbe(status, content_len, accepts_ranges)
    \/ \E status \in HttpStatuses, r \in 0..(MaxLength + 1), ending \in Endings :
          LinearAttempt(status, r, ending)
    \/ \E i \in 1..Concurrency, status \in HttpStatuses,
          r \in 0..(MaxLength + 1), ending \in Endings :
          ChunkAttempt(i, status, r, ending)
    \/ \E copied \in BOOLEAN : JoinAll(copied)
    \/ \E removal \in FinalizeRemovals, renamed \in BOOLEAN :
          Finalize(removal, renamed)

SpecTransport == InitState(Limits(MaxLimit, MaxLimit), NoFile) /\ [][NextTransport]_vars

\* ---- SpecNormalize: normalize_url applied to a URL and to a variant of it.
UrlHosts == {"youtube.com", "www.youtube.com", "m.youtube.com", "youtu.be",
             "www.youtu.be", "example.com", "www.example.com"}
UrlPaths == {<< >>, <<"/">>, <<"/", "abc">>, <<"/", "abc", "/">>,
             <<"/", "watch">>}
UrlQueries == {<< >>,
               <<"?", "v", "=", "abc">>,
               <<"?", "t", "=", "5">>,
               <<"?", "si", "=", "xyz">>,
               <<"?", "v", "=", "abc", "&", "t", "=", "5">>,
               <<"?", "v", "=", "abc", "&", "feature", "=", "share",
                 "&", "si", "=", "xyz">>}
RawUrls ==
    {<<scheme, "://", host>> \o path \o query :
        scheme \in Schemes, host \in UrlHosts, path \in UrlPaths,
        query \in UrlQueries}

\* The URLs that differ from raw by one of the declared rewrites: the scheme,
\* a www. prefix, m.youtube.com for youtube.com, the youtu.be/<id> form of a
\* watch URL, a tracking parameter, a parameter off the allow-list of a
\* YouTube URL, or a trailing "/".
Variants(raw) ==
    LET rest == SubSeq(raw, 4, Len(raw))
        host == raw[3]
        hosts == CASE host \in {"youtube.com", "www.youtube.com", "m.youtube.com"}
                        -> {"youtube.com", "www.youtube.com", "m.youtube.com"}
                   [] host \in {"youtu.be", "www.youtu.be"}
                        -> {"youtu.be", "www.youtu.be"}
                   [] OTHER -> {"example.com", "www.example.com"}
        more == IF IndexFrom(raw, "?", 1) = 0 THEN <<"?">> ELSE <<"&">>
    IN  {<<scheme, "://", h>> \o rest : scheme \in Schemes, h \in hosts}
        \cup {raw \o more \o <<"si", "=", "xyz">>}
        \cup (IF ContainsYoutube(host) THEN {raw \o more \o <<"t", "=", "5">>}
              ELSE {})
        \cup (IF rest = <<"/", "watch", "?", "v", "=", "abc">>
                 /\ ContainsYoutube(host)
              THEN {<<raw[1], "://", "youtu.be", "/", "abc">>}
              ELSE {})
        \cup (IF IndexFrom(raw, "?", 1) = 0 /\ raw[Len(raw)] # "/"
              THEN {raw \o <<"/">>}
              ELSE {})

NextNormalize == \E a \in RawUrls : \E b \in Variants(a) : NormalizeUrls(a, b)

SpecNormalize == InitState(Limits(MaxLimit, MaxLimit), NoFile) /\ [][NextNormalize]_vars

\* ---- SpecHistory: callers of HistoryManager::add and the writer task.
NextHistory ==
    \/ \E url \in HistoryUrls : HistoryAdd(url)
    \/ \E outcome \in WriterOutcomes : HistoryWriter(outcome)

SpecHistory == InitState(Limits(MaxLimit, MaxLimit), NoFile) /\ [][NextHistory]_vars

\* ---- SpecDownload: one start_download next to the users of the
\* HistoryManager.
ProbeResults == {<< >>, <<UA>>, <<UB, UC>>}
HistoryContents == {<<UA>>, <<UB, UC>>}

NextDownload ==
    \/ \E valid \in BOOLEAN, forced \in BOOLEAN, whitelist \in {{}, {UC}} :
          StartDownload(1, valid, forced, whitelist # {}, whitelist)
    \/ \E succeeded \in BOOLEAN, entries \in ProbeResults :
          ProbeExit(1, succeeded, entries)
    \/ LoadHistory(1)
    \/ \E restrict \in BOOLEAN : LoopEntry(1, restrict)
    \/ \E opened \in BOOLEAN : AppendHistory(opened)
    \/ \E content \in HistoryContents : HistorySave(content)
    \/ HistoryClear
    \/ \E outcome \in WriterOutcomes : HistoryWriter(outcome)

SpecDownload == InitState(Limits(MaxLimit, MaxLimit), NoFile) /\ [][NextDownload]_vars

\* ---- SpecProbe: concurrent calls of expand_playlist and start_download.
NextProbe ==
    \E c \in CallIds :
        \/ ExpandPlaylist(c)
        \/ \E valid \in BOOLEAN : StartDownload(c, valid, FALSE, FALSE, {})
        \/ \E succeeded \in BOOLEAN : ProbeExit(c, succeeded, << >>)
        \/ LoadHistory(c)

SpecProbe == InitState(Limits(MaxLimit, MaxLimit), NoFile) /\ [][NextProbe]_vars

\* ---- SpecExits: two jobs whose workers leave by every exit path (no download
\* directory, spawn failure, process error, conflict, success), with the
\* shutdown of the actor.
ExitPathStep(id) ==
    \/ WorkerStart(id)
    \/ \E o \in SpawnOutcomes : WorkerSpawn(id, o)
    \/ ProcClose(id, TRUE, << >>, "a")
    \/ ProcClose(id, TRUE, << >>, "b")
    \/ ProcClose(id, FALSE, StderrSignIn, None)
    \/ ProcExit(id)
    \/ WorkerWait(id)
    \/ WorkerMoveCheck(id)
    \/ WorkerMoveRename(id, "renamed")
    \/ WorkerCleanup(id)

NextExits ==
    \/ AddJob("j1", "u1", FALSE)
    \/ AddJob("j2", "u2", FALSE)
    \/ \E id \in Ids : CancelJob(id)
    \/ \E id \in Ids : ManagerRecv(id)
    \/ Shutdown
    \/ \E id \in Ids : ShutdownDrain(id)
    \/ ShutdownFinish
    \/ \E id \in Ids : ExitPathStep(id)

SpecExits == InitState(Limits(1, MaxLimit), NoFile) /\ [][NextExits]_vars

\* ---- SpecFifo: three jobs and one slot; every worker that starts finishes,
\* the manager keeps receiving, and the host adds and cancels as it likes.
\* The third job has the URL of the first and is admitted once the first is
\* no longer pending or downloading.
FailingWorkerStep(id) ==
    \/ WorkerStart(id)
    \/ WorkerSpawn(id, "spawned")
    \/ WorkerSpawn(id, "spawn_failed")
    \/ ProcClose(id, FALSE, StderrSignIn, None)
    \/ ProcExit(id)
    \/ WorkerWait(id)
    \/ WorkerCleanup(id)

NextFifo ==
    \/ AddJob("j1", "u1", FALSE)
    \/ AddJob("j2", "u2", FALSE)
    \/ AddJob("j3", "u1", FALSE)
    \/ \E id \in AllIds : CancelJob(id)
    \/ \E id \in AllIds : ManagerRecv(id)
    \/ \E id \in AllIds : FailingWorkerStep(id)

SpecFifo ==
    /\ InitState(Limits(1, MaxLimit), NoFile)
    /\ [][NextFifo]_vars
    /\ \A id \in AllIds :
          /\ WF_vars(ManagerRecv(id))
          /\ WF_vars(WorkerStart(id))
          /\ WF_vars(WorkerSpawn(id, "spawned") \/ WorkerSpawn(id, "spawn_failed"))
          /\ WF_vars(ProcClose(id, FALSE, StderrSignIn, None))
          /\ WF_vars(ProcExit(id))
          /\ WF_vars(WorkerWait(id))
          /\ WF_vars(WorkerCleanup(id))

\* ---- SpecInstall: concurrent calls of install_dependency and
\* sync_dependencies.
Providers == {"YtDlpProvider", "FfmpegProvider", "Aria2Provider"}

NextInstall ==
    \E c \in InstallCallIds :
        \/ \E name \in DependencyNames : InstallDependency(c, name)
        \/ \E ok \in BOOLEAN : InstallReturns(c, ok)
        \/ \E yt_exists \in BOOLEAN, ff_exists \in BOOLEAN,
              remote_differs \in BOOLEAN :
              SyncDependencies(c, yt_exists, ff_exists, remote_differs)
        \/ \E provider \in Providers : SyncInstallEnds(c, provider)

SpecInstall == InitState(Limits(MaxLimit, MaxLimit), NoFile) /\ [][NextInstall]_vars

\* ---- SpecStream: the stream loop of a worker over any lines of its child.
NextStream == \E line \in OutputLines : ReadLine(line)

SpecStream == InitState(Limits(MaxLimit, MaxLimit), NoFile) /\ [][NextStream]_vars

\* ---- SpecRetry: one RetryPolicy, built by the engine or by another caller,
\* and the calls of next_backoff on it.
NextRetry ==
    \/ DownloadLinearPolicy
    \/ ChunkTaskPolicy
    \/ \E max_retries \in 0..MaxPolicyRetries : NewPolicy(max_retries)
    \/ NextBackoff

SpecRetry == InitState(Limits(MaxLimit, MaxLimit), NoFile) /\ [][NextRetry]_vars

\* ================================================================== claims
IsCancelled(jt, id) == id \in DOMAIN jt /\ jt[id].status = "cancelled"
WithinLimits(net, inst, cfg) ==
    net <= cfg.max_concurrent_downloads /\ inst <= cfg.max_total_instances
SomeWorkerStarted == \E id \in Ids : worker'[id].runs > worker[id].runs

\* C1 as stated: in every reachable state active_network_jobs <=
\* max_concurrent_downloads and active_process_instances <= max_total_instances,
\* the limits being those of the current configuration.
C1_WithinCurrentLimits ==
    WithinLimits(active_network_jobs, active_process_instances, config)

\* C1, amended: every step that starts a worker ends with both counters within
\* the limits of the current configuration, and every step that leaves the
\* configuration unchanged keeps the counters within its limits once they are.
C1_DispatchWithinLimits ==
    [][ /\ SomeWorkerStarted =>
              WithinLimits(active_network_jobs', active_process_instances', config')
        /\ (config' = config
            /\ WithinLimits(active_network_jobs, active_process_instances, config)) =>
              WithinLimits(active_network_jobs', active_process_instances', config')
      ]_vars

\* A job waits in the queue because the running workers fill the limit.
C1_Witness ==
    /\ active_network_jobs > 0
    /\ active_network_jobs = config.max_concurrent_downloads
    /\ queue # << >>

\* C2: once a job's status is cancelled, no step (ProcessStarted, UpdateProgress,
\* JobCompleted, JobError, ResumePending, AddJob, in any order) changes its
\* status to anything else.
C2_CancelAbsorbing ==
    [][ \A id \in Ids : IsCancelled(jobs, id) => IsCancelled(jobs', id) ]_vars

\* The worker of a cancelled job has reported a completion, the manager has
\* received it, and no completion was recorded.
C2_Witness ==
    /\ IsCancelled(jobs, "j1")
    /\ "JobCompleted" \in terminal_sent["j1"]
    /\ worker["j1"].pc = "done"
    /\ mailbox["j1"] = << >>
    /\ emitted["j1"].complete = 0

\* C3: from the CancelJob of a job on, no download-complete and no
\* download-error event is emitted for its id, whatever the worker sends, and
\* the persistence registry holds no entry for the id.
C3_NoEventAfterCancel ==
    [][ \A id \in Ids :
          /\ IsCancelled(jobs', id) => id \notin DOMAIN persistence_registry'
          /\ IsCancelled(jobs, id) =>
                /\ emitted'[id].complete = emitted[id].complete
                /\ emitted'[id].error = emitted[id].error
      ]_vars

\* A job cancelled while downloading (its pid was recorded), whose worker then
\* reported a failure that the manager received.
C3_Witness ==
    /\ IsCancelled(jobs, "j1")
    /\ jobs["j1"].pid # 0
    /\ "JobError" \in terminal_sent["j1"]
    /\ worker["j1"].pc = "done"
    /\ mailbox["j1"] = << >>
    /\ emitted["j1"].complete = 0
    /\ emitted["j1"].error = 0

\* C4: a job stays in the table and every step that changes it increases its
\* sequence_id; every progress payload emitted for an id carries a sequence_id
\* greater than that of the payload emitted before it for the same id.
C4_SequenceMonotone ==
    [][ \A id \in Ids :
          /\ id \in DOMAIN jobs =>
                /\ id \in DOMAIN jobs'
                /\ jobs'[id] # jobs[id] => jobs'[id].sequence_id > jobs[id].sequence_id
          /\ (id \in DOMAIN pending_updates /\ id \notin DOMAIN pending_updates') =>
                /\ pending_updates[id].sequence_id > emitted[id].last_seq
                /\ emitted'[id].last_seq = pending_updates[id].sequence_id
      ]_vars

\* One payload of the job was emitted in a batch and a later one is pending.
C4_Witness ==
    /\ emitted["j1"].last_seq > 0
    /\ "j1" \in DOMAIN pending_updates
    /\ jobs["j1"].sequence_id > pending_updates["j1"].sequence_id

QueueCount(q, id) == Cardinality({ i \in 1..Len(q) : q[i].id = id })
LivePids(ps, id) == { n \in 1..2 : PidOf(id, n) \in DOMAIN ps }

\* C5: a job id is enqueued at most once and dispatched to at most one worker
\* (occurrences in the queue plus workers started is at most 1), and at most one
\* external process of the job is alive at any instant.
C5_OneWorkerOneProcess ==
    \A id \in Ids :
        /\ QueueCount(queue, id) + worker[id].runs <= 1
        /\ Cardinality(LivePids(procs, id)) <= 1

\* The filesystem retry has spawned the second process of the job.
C5_Witness ==
    /\ worker["j1"].spawned = 2
    /\ LivePids(procs, "j1") = {2}
    /\ jobs_json.exists

InQueue(q, id) == \E i \in 1..Len(q) : q[i].id = id

\* C6: AddJob answers with an error exactly when the UUID is in the job table or
\* a pending or downloading job of the table has the same URL; a rejected AddJob
\* leaves the table, queue, registry, dirty flag and counters unchanged; an
\* accepted one leaves the job in the table with status pending, in the registry,
\* and either in the queue or dispatched to a worker.
C6_AddJob ==
    [][ \A id \in Ids, url \in Urls :
          LET rejected ==
                \/ id \in DOMAIN jobs
                \/ \E j \in DOMAIN jobs :
                      jobs[j].url = url /\ jobs[j].status \in {"pending", "downloading"}
          IN  /\ rejected <=> AddJobResponse(jobs, id, url) # "Ok"
              /\ AddJob(id, url, FALSE) =>
                    IF rejected
                    THEN UNCHANGED <<jobs, queue, persistence_registry,
                                     dirty_persistence, active_network_jobs,
                                     active_process_instances>>
                    ELSE /\ id \in DOMAIN jobs'
                         /\ jobs'[id].status = "pending"
                         /\ jobs'[id].url = url
                         /\ id \in DOMAIN persistence_registry'
                         /\ \/ InQueue(queue', id)
                            \/ worker'[id].runs = worker[id].runs + 1
      ]_vars

\* A job is downloading a URL while the other id is free: an AddJob of the other
\* id is rejected for that URL and accepted for another one.
C6_Witness ==
    /\ "j1" \in DOMAIN jobs
    /\ jobs["j1"].status = "downloading"
    /\ "j2" \notin DOMAIN jobs
    /\ actor = "running"

\* The manager takes the next message of the worker of id.
Receives(id) ==
    actor = "running" /\ mailbox[id] # << >> /\ mailbox'[id] = Tail(mailbox[id])

\* C7: when the manager handles the JobCompleted or the JobError of a job that is
\* not cancelled, the dirty flag is set; JobCompleted and a JobError classified
\* fatal remove the registry entry; a non-fatal JobError keeps the entry, with
\* status "error" and the error and stderr of the message, and every JobError
\* emits one download-error event.
C7_RegistryOnTerminal ==
    [][ \A id \in Ids :
          (Receives(id) /\ ~IsCancelled(jobs, id)) =>
             LET msg == Head(mailbox[id])
                 fatal == is_fatal_error(msg.error) \/ is_fatal_error(msg.stderr)
             IN  /\ msg.type = "JobCompleted" =>
                       /\ id \notin DOMAIN persistence_registry'
                       /\ dirty_persistence'
                 /\ msg.type = "JobError" =>
                       /\ dirty_persistence'
                       /\ emitted'[id].error = emitted[id].error + 1
                       /\ fatal => id \notin DOMAIN persistence_registry'
                       /\ (~fatal /\ id \in DOMAIN persistence_registry) =>
                             /\ id \in DOMAIN persistence_registry'
                             /\ persistence_registry'[id].status = "error"
                             /\ persistence_registry'[id].error = msg.error
                             /\ persistence_registry'[id].stderr = msg.stderr
      ]_vars

\* A non-fatal failure left its remnant in the registry after the flag had been
\* cleared by a tick.
C7_Witness ==
    /\ "j1" \in DOMAIN persistence_registry
    /\ persistence_registry["j1"].status = "error"
    /\ emitted["j1"].error = 1
    /\ dirty_persistence
    /\ jobs_json.exists

\* C8 as stated: when the actor has stopped and the persistence writer has
\* nothing left to write, every job still in the queue is in jobs.json.
C8_QueuedJobPersisted ==
    (actor = "stopped" /\ persistence_chan = << >>) =>
        \A i \in 1..Len(queue) : jobs_json.exists /\ queue[i] \in jobs_json.jobs

\* C9 as stated: every job for which a worker is started eventually has a
\* terminal status, with its worker returned and WorkerFinished received.
C9_EveryStartedJobTerminates ==
    \A id \in Ids :
        (worker[id].runs > 0) ~>
            /\ id \in DOMAIN jobs
            /\ jobs[id].status \in {"completed", "cancelled", "error"}
            /\ worker[id].pc = "done"
            /\ mailbox[id] = << >>

\* C10: a worker that finds the destination existing when it finalises sends
\* FileConflict with the staging path and the destination path and marks the
\* stage directory as preserved; a worker that sent FileConflict sends neither
\* JobCompleted nor JobError; and the step that ends such a worker leaves the
\* staged file and the stage directory as they are.
C10_ConflictSafety ==
    [][ \A id \in Ids :
          /\ (worker[id].pc = "move_check" /\ library[worker[id].src] # None
              /\ worker'[id] # worker[id]) =>
                /\ mailbox'[id] # << >>
                /\ LET msg == mailbox'[id][Len(mailbox'[id])]
                   IN  /\ msg.type = "FileConflict"
                       /\ msg.temp_path = <<"temp_downloads", id, staged[id]>>
                       /\ msg.output_path = <<"library", worker[id].src>>
                /\ worker'[id].preserve_temp_file
                /\ staged'[id] = staged[id]
                /\ stage_dir'[id] = stage_dir[id]
          /\ "FileConflict" \in terminal_sent'[id] => terminal_sent'[id] = {"FileConflict"}
          /\ (worker[id].preserve_temp_file /\ worker'[id].pc = "done") =>
                /\ staged'[id] = staged[id] /\ staged[id] # None
                /\ stage_dir'[id] = stage_dir[id] /\ stage_dir[id]
      ]_vars

\* A worker has returned after a conflict, with its staged file in place.
C10_Witness ==
    /\ terminal_sent["j1"] = {"FileConflict"}
    /\ worker["j1"].pc = "done"
    /\ staged["j1"] = "a"
    /\ stage_dir["j1"]

\* C11 as stated: a file in the library is never replaced by a later move, and
\* of the workers that finalise to one destination at most one reports
\* JobCompleted.
C11_AtMostOneMoveSucceeds ==
    [][ /\ \A f \in FileNames : library[f] # None => library'[f] = library[f]
        /\ ~(\A id \in Ids : "JobCompleted" \in terminal_sent'[id])
      ]_vars

\* C12 as stated: at every instant every destination path of the library is
\* absent or holds a complete file, never a partially written one.
C12_NoPartialFileInLibrary ==
    \A f \in FileNames : library[f] # Partial

\* C13: download_file_robust returns success only when the downloaded file is
\* at the destination; in particular a failure of the external downloader
\* adapter is never turned into a success without a file.
C13_SuccessMeansFilePresent ==
    xfer.result = "Ok" => xfer.dest.exists /\ xfer.dest # OldFile

\* C14: when the probe learnt Content-Length = L > 0, a native download that
\* returned success left exactly the L bytes 0 .. L-1 at the destination, in
\* order; when it learnt no length, every total the engine reported to the
\* callback is 0 or the caller's fallback size.
C14_LengthInvariant ==
    /\ (xfer.result = "Ok" /\ xfer.mode \in {"linear", "concurrent"} /\ xfer.len > 0)
          => /\ xfer.dest.exists
             /\ Len(xfer.dest.data) = xfer.len
             /\ xfer.dest.data = Bytes(0, xfer.len)
    /\ (xfer.len = 0 => xfer.totals \subseteq {0, xfer.fallback})

\* A concurrent download of a known length succeeded after a chunk was retried.
C14_Witness ==
    /\ xfer.result = "Ok"
    /\ xfer.mode = "concurrent"
    /\ xfer.len > 0
    /\ \E i \in 1..Concurrency : xfer.parts[i].attempt > 0

C17_NormaliseInvariant ==
    /\ norm.stage = "done" => norm.nna = norm.na /\ norm.nb = norm.na
    /\ normalize_url(<<"https", "://", "www.youtube.com", "/", "watch", "?",
                       "v", "=", "abc", "&", "feature", "=", "share", "&",
                       "si", "=", "xyz">>)
          = <<"youtube.com", "/", "watch", "?", "v", "=", "abc">>
    /\ normalize_url(<<"http", "://", "youtu.be", "/", "abc", "?", "t", "=", "5">>)
          = <<"youtube.com", "/", "watch", "?", "v", "=", "abc">>

\* C15: whatever the callers of add and their interleaving, the history file
\* holds at most one line per canonical form.
C15_HistoryDedup ==
    \A i, j \in DOMAIN hist.file :
        i # j => normalize_url(hist.file[i]) # normalize_url(hist.file[j])

\* C16: the set of the HistoryManager contains the canonical form of every
\* line of the history file.
C16_SetCoversFile ==
    NormalizedLines(hist.file) \subseteq hist.cache

\* C18: a start_download that was not forced (and had no whitelist) returns
\* as skipped_urls exactly the probed entries whose canonical form is in the
\* history it loaded, with skipped_count their number and total_found the
\* number of entries, and a job id for every other entry.
C18_SkipsKnownUrls ==
    LET call == calls[1]
        known(u) == normalize_url(u) \in {normalize_url(l) : l \in call.history}
    IN  (call.pc = "done" /\ call.result = "Ok" /\ call.kind = "start"
         /\ ~call.forced /\ ~call.whitelisted)
          => /\ call.skipped_urls = SelectSeq(call.entries, known)
             /\ call.total_found = Len(call.entries)
             /\ Len(call.job_ids) = Len(call.entries) - Len(call.skipped_urls)

\* C20: at most 3 probe subprocesses are in flight.
C20_ProbeFanOut == InFlightProbes <= 3

\* C21 as stated: at most one install of a managed binary runs at any
\* instant, whatever the interleaving of install_dependency and
\* sync_dependencies calls; an install_dependency for a name whose install is
\* in progress is rejected, and the name's lock is free when no
\* install_dependency for it is running.
C21_OneInstallPerBinary ==
    /\ \A provider \in Providers : Cardinality(RunningInstalls(provider)) <= 1
    /\ \A name \in DependencyNames :
          name \in deps.locks <=>
             \E c \in InstallCallIds :
                 /\ deps.call[c].pc = "installing"
                 /\ deps.call[c].kind = "install"
                 /\ deps.call[c].name = name

\* The WorkerFinished messages of the worker of id that the manager has not
\* yet taken.
FinishedInFlight(id) ==
    Cardinality({i \in 1..Len(mailbox[id]) : mailbox[id][i].type = "WorkerFinished"})

\* The spawned workers whose WorkerFinished has not been processed.
Outstanding ==
    {id \in Ids : worker[id].pc \notin {"idle", "done"} \/ FinishedInFlight(id) > 0}

\* C22: while the actor lives, a worker that has returned by any exit path
\* has sent exactly one WorkerFinished (none is sent before it returns), both
\* counters equal the number of spawned workers whose WorkerFinished has not
\* been processed, active_process_instances >= active_network_jobs, and both
\* are 0 once every worker has finished.
C22_CountersDoNotLeak ==
    actor # "stopped" =>
        /\ \A id \in Ids :
              /\ FinishedInFlight(id) <= 1
              /\ FinishedInFlight(id) = 1 => worker[id].pc = "done"
        /\ active_process_instances = Cardinality(Outstanding)
        /\ active_network_jobs = Cardinality(Outstanding)
        /\ active_process_instances >= active_network_jobs
        /\ Outstanding = {} => active_process_instances = 0 /\ active_network_jobs = 0

\* The worker of one job left through a spawn failure and its WorkerFinished
\* was processed while the worker of the other job is still running.
C22_Witness ==
    /\ actor = "running"
    /\ worker["j1"].pc = "done"
    /\ worker["j1"].spawned = 0
    /\ "JobError" \in terminal_sent["j1"]
    /\ mailbox["j1"] = << >>
    /\ worker["j2"].pc = "stream"
    /\ active_process_instances = 1

\* The jobs of the queue that are still in it after the step.
KeptInQueue ==
    Cardinality({i \in 1..Len(queue) : InQueue(queue', queue[i].id)})

\* C23: with both limits at least 1, workers that finish and a manager that
\* keeps receiving, every job that is in the queue and not cancelled is
\* eventually given a worker (unless it is cancelled first); and dispatch
\* follows the order of admission: the jobs a step leaves in the queue are the
\* jobs admitted last, in their order and ahead of the jobs the step admits,
\* every job popped before them was given a worker or was cancelled, and a
\* job admitted by the step is given a worker only when no older job stays.
C23_FifoStarvationFree ==
    /\ [][ LET popped == Len(queue) - KeptInQueue
           IN  /\ Len(queue') >= KeptInQueue
               /\ SubSeq(queue', 1, KeptInQueue)
                     = SubSeq(queue, popped + 1, Len(queue))
               /\ \A i \in 1..popped :
                     \/ worker'[queue[i].id].runs = worker[queue[i].id].runs + 1
                     \/ IsCancelled(jobs, queue[i].id)
               /\ \A id \in AllIds :
                     (worker'[id].runs > worker[id].runs /\ ~InQueue(queue, id))
                        => KeptInQueue = 0
         ]_vars
    /\ \A id \in AllIds :
          (InQueue(queue, id) /\ ~IsCancelled(jobs, id))
             ~> (worker[id].runs > 0 \/ IsCancelled(jobs, id))

\* The second job was given the slot of the first and the third, admitted
\* behind it, waits in the queue.
C23_Witness ==
    /\ worker["j1"].pc = "done"
    /\ worker["j2"].runs = 1
    /\ worker["j2"].pc # "done"
    /\ Len(queue) = 1
    /\ queue[1].id = "j3"
    /\ ~IsCancelled(jobs, "j3")

\* The workers the step starts, and the WorkerFinished messages it handles.
StartedWorkers == {id \in AllIds : worker'[id].runs > worker[id].runs}
FinishedHandled ==
    {id \in AllIds : /\ actor = "running"
                     /\ mailbox[id] # << >>
                     /\ mailbox'[id] = Tail(mailbox[id])
                     /\ Head(mailbox[id]).type = "WorkerFinished"}

\* C24: a job whose status is cancelled while it is in the queue is not given
\* a worker; the step that pops it increments the counters only for the
\* workers it starts, and it goes on with the jobs behind it: afterwards the
\* queue is empty or a limit is reached.
C24_CancelledNeverDispatched ==
    [][ \A id \in AllIds :
          (InQueue(queue, id) /\ IsCancelled(jobs, id)) =>
              /\ worker'[id].runs = worker[id].runs
              /\ worker'[id].pc = "idle"
              /\ ~InQueue(queue', id) =>
                    /\ active_process_instances' =
                          active_process_instances - Cardinality(FinishedHandled)
                            + Cardinality(StartedWorkers)
                    /\ active_network_jobs' =
                          active_network_jobs - Cardinality(FinishedHandled)
                            + Cardinality(StartedWorkers)
                    /\ \/ queue' = << >>
                       \/ active_network_jobs' >= config.max_concurrent_downloads
                       \/ active_process_instances' >= config.max_total_instances
      ]_vars

\* The second job was cancelled in the queue and dropped when the slot of the
\* first became free; the third job, behind it, got the slot.
C24_Witness ==
    /\ IsCancelled(jobs, "j2")
    /\ worker["j2"].runs = 0
    /\ ~InQueue(queue, "j2")
    /\ worker["j1"].pc = "done"
    /\ worker["j3"].runs = 1
    /\ active_process_instances = 1

\* ---- SpecResume: the jobs of a previous session are resumed while the host
\* adds a job under a new id, with either URL, and cancels.
NextResume ==
    \/ \E url \in Urls : AddJob("j3", url, FALSE)
    \/ \E id \in AllIds : CancelJob(id)
    \/ ResumePending
    \/ \E id \in AllIds : ManagerRecv(id)
    \/ \E id \in AllIds : PlainWorkerStep(id)

SpecResume == Init /\ [][NextResume]_vars

\* C25: no two jobs of the table whose status is pending or downloading have
\* the same URL.
C25_NoDuplicateActiveUrl ==
    \A a, b \in DOMAIN jobs :
        (/\ a # b
         /\ jobs[a].status \in {"pending", "downloading"}
         /\ jobs[b].status \in {"pending", "downloading"})
        => jobs[a].url # jobs[b].url

\* C26: once download-cancelled has been emitted for a job of the table, no
\* download-progress-batch event carries a payload for its id: no step
\* flushes a payload of that id out of the pending-update map.
C26_NoProgressAfterCancelled ==
    [][ \A id \in Ids :
          (IsCancelled(jobs, id) /\ emitted[id].cancelled > 0) =>
              ~(id \in DOMAIN pending_updates /\ id \notin DOMAIN pending_updates')
      ]_vars

\* C27: a job whose status is completed keeps that status in every step, and
\* no step emits a download-cancelled event for it.
C27_CompletedIsFinal ==
    [][ \A id \in Ids :
          (id \in DOMAIN jobs /\ jobs[id].status = "completed") =>
              /\ id \in DOMAIN jobs'
              /\ jobs'[id].status = "completed"
              /\ emitted'[id].cancelled = emitted[id].cancelled
      ]_vars

\* C28: a job that is completed or in error has no pid recorded, and a step
\* that signals the pid recorded for a job signals the process of a job that
\* is neither completed nor in error.
C28_PidOnlyWhileRunning ==
    /\ [](\A id \in DOMAIN jobs :
             jobs[id].status \in {"completed", "error"} => jobs[id].pid = 0)
    /\ [][ \A id \in DOMAIN jobs :
              (jobs[id].pid # 0 /\ jobs[id].pid \in signalled' \ signalled)
                  => jobs[id].status \notin {"completed", "error"}
         ]_vars

\* The jobs of jobs.json, and what ResumePending would make of the present
\* table, registry and queue for a given order of the file.
FileJobs == IF jobs_json.exists THEN jobs_json.jobs ELSE {}
Resumed(order) == resume_jobs(order, jobs, persistence_registry, queue)

\* C29: in every reachable state and for every order of the file, ResumePending
\* leaves the jobs of the table as they are, gives every persisted job that is
\* not in the table a live job with its URL (status error with its error and
\* stderr when persisted as error, pending otherwise) and its registry entry,
\* appends it to the queue exactly when it is not an error entry, and applied
\* once more to its own result it changes nothing.  A step that brings a
\* persisted job into the table is such a ResumePending, and the job is then in
\* the queue or with a worker exactly when it is not an error entry.
C29_ResumePending ==
    /\ [](\A order \in OrdersOf(FileJobs) :
            LET r == Resumed(order)
            IN  /\ \A id \in DOMAIN jobs : r.jobs[id] = jobs[id]
                /\ \A id \in DOMAIN persistence_registry :
                       id \in DOMAIN jobs =>
                           r.persistence_registry[id] = persistence_registry[id]
                /\ \A job \in FileJobs :
                       /\ job.id \in DOMAIN r.jobs
                       /\ job.id \notin DOMAIN jobs =>
                             /\ r.jobs[job.id].url = job.url
                             /\ r.jobs[job.id].status =
                                   (IF job.status = "error" THEN "error" ELSE "pending")
                             /\ job.status = "error" =>
                                   /\ r.jobs[job.id].error = job.error
                                   /\ r.jobs[job.id].stderr = job.stderr
                             /\ r.persistence_registry[job.id] = job
                             /\ QueueCount(r.queue, job.id) =
                                   QueueCount(queue, job.id)
                                     + (IF job.status = "error" THEN 0 ELSE 1)
                       /\ job.id \in DOMAIN jobs =>
                             QueueCount(r.queue, job.id) = QueueCount(queue, job.id)
                /\ DOMAIN r.jobs = DOMAIN jobs \cup {job.id : job \in FileJobs}
                /\ Len(r.queue) = Len(queue)
                      + Cardinality({job \in FileJobs :
                            job.id \notin DOMAIN jobs /\ job.status # "error"})
                /\ resume_jobs(order, r.jobs, r.persistence_registry, r.queue) = r)
    /\ [][ (\E job \in FileJobs : job.id \notin DOMAIN jobs /\ job.id \in DOMAIN jobs') =>
              /\ \E order \in OrdersOf(FileJobs) :
                    /\ jobs' = Resumed(order).jobs
                    /\ persistence_registry' = Resumed(order).persistence_registry
              /\ \A job \in FileJobs :
                    job.id \notin DOMAIN jobs =>
                        QueueCount(queue', job.id)
                          + (worker'[job.id].runs - worker[job.id].runs)
                            = (IF job.status = "error" THEN 0 ELSE 1)
         ]_vars

\* The file held j1, queued, and j2, in error.  After ResumePending j1 ran and
\* completed and j2 is in the table and in the registry with status error,
\* never queued; j3 was added by the host.
C29_Witness ==
    /\ jobs_json.exists
    /\ DOMAIN jobs = AllIds
    /\ jobs["j1"].status = "completed"
    /\ jobs["j2"].status = "error"
    /\ jobs["j2"].stderr = StderrSignIn
    /\ "j2" \in DOMAIN persistence_registry
    /\ ~InQueue(queue, "j2")
    /\ worker["j2"].runs = 0

\* The manager removes the stage directory of id: the directory disappears in
\* a step that the worker of id does not take.
ManagerDeletesStage(id) ==
    stage_dir[id] /\ ~stage_dir'[id] /\ worker'[id] = worker[id]

\* C30: a step in which the manager cleans the temp directory ends with zero
\* in-flight workers, an empty queue and an empty registry, and the manager
\* never removes the stage directory of a worker that has not finished.
C30_CleanOnlyWhenIdle ==
    [][ \A id \in Ids :
          ManagerDeletesStage(id) =>
              /\ active_process_instances' = 0
              /\ queue' = << >>
              /\ DOMAIN persistence_registry' = {}
              /\ worker[id].pc \in {"idle", "done"}
      ]_vars

\* The step appends a Save to the persistence mailbox.
HandsOffSave ==
    /\ Len(persistence_chan') = Len(persistence_chan) + 1
    /\ persistence_chan'[Len(persistence_chan')].type = "Save"

\* C31: the dirty flag is cleared exactly by the steps that hand a Save off to
\* the persistence mailbox; such a step needs the flag set and room in the
\* mailbox, and the Save carries the registry as it is in that step.  With a
\* full mailbox the flag therefore stays set.
C31_DirtyClearedIffHandedOff ==
    [][ /\ (dirty_persistence /\ ~dirty_persistence') <=> HandsOffSave
        /\ HandsOffSave =>
              /\ dirty_persistence
              /\ Len(persistence_chan) < PersistenceCapacity
              /\ persistence_chan' = Append(persistence_chan,
                     [type |-> "Save", jobs |-> Snapshot(persistence_registry)])
              /\ persistence_registry' = persistence_registry
        /\ (dirty_persistence /\ Len(persistence_chan) >= PersistenceCapacity)
              => dirty_persistence'
      ]_vars

\* A tick handed off the registry holding j1; j1 then completed, which set the
\* flag again, and the mailbox is still full: the flag stays set over every
\* tick until the writer takes the older Save.
C31_Witness ==
    /\ dirty_persistence
    /\ Len(persistence_chan) = PersistenceCapacity
    /\ persistence_chan[1].type = "Save"
    /\ persistence_chan[1].jobs # Snapshot(persistence_registry)
    /\ "j1" \in DOMAIN jobs /\ jobs["j1"].status = "completed"

\* C32: once ClearPending has been handled, and until a job is admitted, every
\* Save still in the persistence mailbox has a Clear behind it, and when no
\* Clear is left in the mailbox jobs.json does not exist.
C32_ClearedStaysCleared ==
    cleared =>
        /\ \A i \in 1..Len(persistence_chan) :
              persistence_chan[i].type = "Save" =>
                  \E k \in (i + 1)..Len(persistence_chan) :
                      persistence_chan[k].type = "Clear"
        /\ (\A i \in 1..Len(persistence_chan) : persistence_chan[i].type # "Clear")
              => ~jobs_json.exists

\* The steps of a worker whose child prints progress and succeeds.
ProgressWorkerStep(id) ==
    \/ WorkerStart(id)
    \/ WorkerSpawn(id, "spawned")
    \/ ProcLine(id)
    \/ ProcClose(id, TRUE, << >>, "b")
    \/ ProcExit(id)
    \/ WorkerWait(id)
    \/ WorkerMoveCheck(id)
    \/ WorkerMoveRename(id, "renamed")
    \/ WorkerCleanup(id)

\* ---- SpecBatch: two jobs with a slot each, whose children print progress,
\* under the tick; the host may cancel the first.
NextBatch ==
    \/ AddJob("j1", "u1", FALSE)
    \/ AddJob("j2", "u2", FALSE)
    \/ CancelJob("j1")
    \/ \E id \in Ids : ManagerRecv(id)
    \/ Tick
    \/ \E id \in Ids : ProgressWorkerStep(id)

SpecBatch == InitState(Limits(MaxLimit, MaxLimit), NoFile) /\ [][NextBatch]_vars

\* The manager handles an UpdateProgress of id that it does not ignore.
AcceptsProgress(id) ==
    /\ Receives(id)
    /\ Head(mailbox[id]).type = "UpdateProgress"
    /\ id \in DOMAIN jobs
    /\ ~IsCancelled(jobs, id)

\* The step emits a download-progress-batch event.
Flushes == pending_updates # EmptyMap /\ pending_updates' = EmptyMap

\* C33: the pending map holds, for every job whose UpdateProgress was taken
\* since the last flush, the payload of the latest one; a flush emits the
\* payload of every job in the map and of no other job and leaves the map
\* empty; a step that does not flush, a tick with an empty map included, emits
\* no payload.
C33_ProgressBatching ==
    [][ \A id \in Ids :
          /\ AcceptsProgress(id) =>
                /\ id \in DOMAIN pending_updates'
                /\ pending_updates'[id].sequence_id = jobs'[id].sequence_id
                /\ pending_updates'[id].phase = Head(mailbox[id]).phase
                /\ id \in DOMAIN pending_updates =>
                      pending_updates'[id].sequence_id > pending_updates[id].sequence_id
          /\ ~AcceptsProgress(id) =>
                \/ pending_updates' = EmptyMap
                \/ /\ id \in DOMAIN pending_updates <=> id \in DOMAIN pending_updates'
                   /\ id \in DOMAIN pending_updates =>
                         pending_updates'[id] = pending_updates[id]
          /\ Flushes =>
                emitted'[id].last_seq = (IF id \in DOMAIN pending_updates
                                          THEN pending_updates[id].sequence_id
                                          ELSE emitted[id].last_seq)
          /\ ~Flushes => emitted'[id].last_seq = emitted[id].last_seq
      ]_vars

\* Two updates of j1 were taken since the last flush and only the payload of
\* the second is pending; an earlier batch carried the first payload of j2,
\* whose second is pending too: the next batch carries one payload for each.
C33_Witness ==
    /\ DOMAIN pending_updates = Ids
    /\ emitted["j1"].last_seq = 0
    /\ pending_updates["j1"].sequence_id = 3
    /\ pending_updates["j1"].phase = "Downloading"
    /\ emitted["j2"].last_seq = 1
    /\ pending_updates["j2"].sequence_id = 3

TerminalTypes == {"JobCompleted", "FileConflict", "JobError"}
TerminalIn(q) == Cardinality({i \in 1..Len(q) : q[i].type \in TerminalTypes})

\* C34: a worker sends at most one terminal message, and exactly one by the
\* time it returns; it goes back to the head of its loop only after a child
\* that exited non-zero with a filesystem error in its output while
\* restrict_filenames was not set, which it then sets; so it spawns at most two
\* processes, and at most one download-complete event is emitted for the job.
C34_OneTerminalOneRetry ==
    /\ [](\A id \in Ids :
            /\ Cardinality(terminal_sent[id]) <= 1
            /\ TerminalIn(mailbox[id]) <= 1
            /\ worker[id].pc = "done" => Cardinality(terminal_sent[id]) = 1
            /\ worker[id].spawned <= 2
            /\ worker[id].spawned = 2 => worker[id].restrict_filenames
            /\ emitted[id].complete <= 1)
    /\ [][ \A id \in Ids :
              /\ TerminalIn(mailbox'[id]) > TerminalIn(mailbox[id]) =>
                    /\ terminal_sent[id] = {}
                    /\ TerminalIn(mailbox[id]) = 0
                    /\ TerminalIn(mailbox'[id]) = 1
                    /\ Cardinality(terminal_sent'[id]) = 1
              /\ terminal_sent'[id] # terminal_sent[id] =>
                    TerminalIn(mailbox'[id]) > TerminalIn(mailbox[id])
              /\ (worker[id].pc = "stream" /\ worker'[id].pc = "loop") =>
                    /\ ~worker[id].exit_ok
                    /\ is_filesystem_error(worker[id].stderr)
                    /\ ~worker[id].restrict_filenames
                    /\ worker'[id].restrict_filenames
                    /\ worker[id].spawned = 1
         ]_vars

\* The first child failed with a filesystem error, the worker retried with
\* restricted filenames, the second child succeeded and the job completed with
\* one download-complete event.
C34_Witness ==
    /\ worker["j1"].pc = "done"
    /\ jobs["j1"].pid = PidOf("j1", 2)
    /\ jobs["j1"].status = "completed"
    /\ terminal_sent["j1"] = {"JobCompleted"}
    /\ emitted["j1"].complete = 1
    /\ emitted["j1"].error = 0

\* The post-processing phases.
PostProcessingPhases ==
    { <<"Writing", "Metadata">>, <<"Embedding", "Thumbnail">>, <<"Merging", "Formats">>,
      <<"Extracting", "Audio">>, <<"Fixing", "Container">>, <<"Finalizing">> }

\* C35: once the phase of the stream loop is a post-processing phase, no line
\* sets it to "Downloading" or to "Processing (FFmpeg)".
C35_PhaseNeverRegresses ==
    [][ stream.state_phase \in PostProcessingPhases =>
            stream'.state_phase \notin {<<"Downloading">>, <<"Processing", "(FFmpeg)">>}
      ]_vars

\* The step shows the "Downloads Finished" notification: it handles the
\* WorkerFinished that brings active_process_instances to 0, which makes the
\* session counter at least 1.
Notifies == FinishedHandled # {} /\ active_process_instances = 1

\* C36: the notification is shown only with no worker active and no job
\* waiting in the queue, and the session counter, which counts the workers
\* finished since the last notification, is 0 afterwards.
C36_NotificationMarksBatch ==
    [][ /\ Notifies =>
              /\ queue = << >>
              /\ active_process_instances' = 0
              /\ completed_session_count' = 0
        /\ (FinishedHandled # {} /\ ~Notifies) =>
              completed_session_count' = completed_session_count + 1
        /\ FinishedHandled = {} => completed_session_count' = completed_session_count
      ]_vars


\* C37 as stated: in every download attempt, linear or per chunk, with or
\* without a known total length, a poll of the response stream that exceeds
\* the timeout makes the attempt fail: the linear attempt that stalled does not
\* go on to finalize or return success, and no chunk whose latest attempt
\* stalled counts as downloaded.
C37_StallFailsAttempt ==
    /\ (xfer.mode = "linear" /\ xfer.stalled)
          => xfer.pc # "finalize" /\ xfer.result # "Ok"
    /\ \A i \in DOMAIN xfer.parts :
          xfer.parts[i].stalled => xfer.parts[i].state # "ok"


\* The content of a staging file begins with the content it had before.
KeepsBytes(before, after) ==
    /\ Len(after.data) >= Len(before.data)
    /\ SubSeq(after.data, 1, Len(before.data)) = before.data

\* C38 as stated: concurrent-mode progress is preserved across attempts: no
\* chunk attempt loses bytes that the chunk's staging file already holds, and
\* a run that fails permanently on some chunk leaves the staging files of the
\* chunks on disk with what they hold.
C38_ChunkProgressPreserved ==
    [][ (xfer.pc = "chunks"
         /\ (xfer'.pc = "chunks" \/ xfer'.result = "Validation"))
           => \A i \in 1..Concurrency :
                 KeepsBytes(xfer.parts[i].file, xfer'.parts[i].file)
      ]_vars


\* min(10_000, 1000 * 2^n) as a number.
ExpectedDelay(n) ==
    IF n >= CapBits THEN DelayCap
    ELSE IF 1000 * (2 ^ n) < DelayCap THEN 1000 * (2 ^ n) ELSE DelayCap

\* C39 as stated: the n-th call of next_backoff (n = 0 .. max-1) returns
\* min(10_000, 1000 * 2^n) ms without arithmetic overflow, every call from the
\* max-th on returns "no more", the linear retry is built with max = 5 and
\* makes at most 6 attempts, and the policy of a chunk is built with max = 10.
C39_RetryPolicy ==
    /\ retry.last.kind # "panic"
    /\ (retry.asked > 0 /\ retry.asked <= retry.policy.max_retries)
          => /\ retry.last = BackoffSome(ExpectedDelay(retry.asked - 1))
             /\ ~delay_overflows(retry.asked - 1)
    /\ retry.asked > retry.policy.max_retries => retry.last = BackoffNone
    /\ retry.owner = "download_linear"
          => retry.policy.max_retries = 5 /\ retry.asked <= 6
    /\ retry.owner = "chunk_task" => retry.policy.max_retries = 10


\* The byte offsets a chunk asks for.
RangeOf(chunk) == chunk.start .. chunk.end

\* C40: for every total size that selects the concurrent mode, the chunks of
\* download_concurrent have end = start + len - 1 and the indices 0 .. N-1,
\* each chunk begins right after the one before, the chunks are pairwise
\* disjoint, together they are exactly the offsets 0 .. total_size - 1, and the
\* last chunk takes the remainder of the division.
C40_ChunksPartition ==
    xfer.mode = "concurrent" =>
        LET N == Concurrency
            chunks == [i \in 0..(N - 1) |-> ChunkOf(i, xfer.len)]
        IN  /\ \A i \in 0..(N - 1) :
                  /\ chunks[i].index = i
                  /\ chunks[i].end = chunks[i].start + chunks[i].len - 1
                  /\ chunks[i].len >= 1
            /\ chunks[0].start = 0
            /\ \A i \in 0..(N - 2) : chunks[i + 1].start = chunks[i].end + 1
            /\ \A i, j \in 0..(N - 1) :
                  i # j => RangeOf(chunks[i]) \cap RangeOf(chunks[j]) = {}
            /\ UNION {RangeOf(chunks[i]) : i \in 0..(N - 1)} = 0..(xfer.len - 1)
            /\ \A i \in 0..(N - 2) : chunks[i].len = xfer.len \div N
            /\ chunks[N - 1].len = (xfer.len \div N) + (xfer.len % N)

\* A download whose length is not a multiple of the number of chunks went
\* through the concurrent mode and succeeded.
C40_Witness ==
    /\ xfer.mode = "concurrent"
    /\ xfer.len % Concurrency # 0
    /\ xfer.result = "Ok"
    /\ xfer.dest = FileOf(Bytes(0, xfer.len))

=============================================================================
